---- MODULE Spec2Model ----
(***************************************************************************)
(* Heka Lua sandbox (sandbox/lua): the quota-enforced script host.         *)
(*                                                                         *)
(* One sandbox object is modelled.  The host calls init, process_message,  *)
(* timer_event and destroy; while a call is inside the interpreter         *)
(* (pc = "script") the script takes steps: it executes instructions,       *)
(* enters and leaves protected calls, raises errors, calls output() and    *)
(* inject_message(), and makes the interpreter allocate and free memory.   *)
(*                                                                         *)
(* Memory quantities are counted in KiB so that the 32-bit width of the    *)
(* usage counters (2^32 bytes = 2^22 KiB) fits the checker's integers;     *)
(* output quantities are counted in bytes.                                 *)
(***************************************************************************)
EXTENDS Integers, Sequences, FiniteSets, TLC

\* ---------------------------------------------------------------- bounds
MaxCalls == 3
MaxExecuted == 3
MaxPcall == 1
MaxBlocks == 1
MaxOutPos == 6
MaxSec == 4
MaxOps == 3
MaxTables == 2
MaxBuffers == 1
MaxAssign == 3
MaxEmits == 2
MaxReads == 2
MaxChunks == 2

\* ------------------------------------------------------ program constants
MemUnit == 2^10
ERROR_SIZE == 255
OUTPUT_SIZE == 1024
MAX_MEMORY == (1024 * 1024 * 8) \div MemUnit
UINT_WRAP == 2^22

seconds_in_hour == 60 * 60
NumUnit == 1000000000
magnitude == 100000000

\* ------------------------------------------------- inputs the model draws
\* Limits given at creation; request sizes below, at and above the memory
\* limit, and one large enough to wrap the 32-bit counter; an output
\* length that fits the limit once but not twice; error messages short
\* and long enough to be cut by the ERROR_SIZE buffer, with and without
\* the "aborted" tail; host results of an injection (0 ok, 5 aborted);
\* status codes a script returns.
MemLimits == {3}
InstLimits == {2}
OutLimits == {4}
AllocSizes == {2, 4}
HugeAlloc == UINT_WRAP + 1
OutLens == {3}
AbortedLens == {20, ERROR_SIZE - 15}
PlainLens == {5, ERROR_SIZE - 5}
InjectResults == {0, 5}
HostResults == 0..6
Statuses == {0, -1}
MAX_INSTRUCTION == 1000000
MAX_OUTPUT == 1024 * 63
PluginTypes == {"", "input", "output", "filter", "decoder", "encoder",
                "other"}
Blocks == 1..MaxBlocks
CBRows == {2, 3}
CBColumns == {2}
CBSeconds == {1, 2}
CBWraps == {0, 1}
CBValues == {500000000, 123456789}
FromValues == {500000000}
TextRows == {0, 1, 5}
HeaderNames == {"http 5xx"}
HeaderUnits == {"B/s"}
Aggregations == {"max"}
SerKeys == {"a", "b"}
KeyOrder == <<"a", "b">>
Dispatch == {"process_message", "timer_event"}

VARIABLES
    alive,            \* the lua_sandbox object exists (not yet destroyed)
    m_lua,            \* lsb->m_lua != NULL
    m_status,         \* lsb->m_status
    m_error_message,  \* lsb->m_error_message
    mem, ins, out,    \* lsb->m_usage[type]: [lim, cur, max]
    m_output,         \* lsb->m_output: [m_size, m_pos]
    blocks,           \* live interpreter allocations: block -> size in KiB
    hookcount,        \* count of the installed count hook, 0 = no hook
    hookleft,         \* instructions left before the hook fires
    pc,               \* "host" or "script"
    entry,            \* the chunk or function the interpreter is running
    pcallDepth,       \* protected calls the script is inside
    executed,         \* instructions executed since the call began
    data_file,        \* init was given a state path
    configured_memory,\* restore_global_data's saved limit
    persisted,        \* outcome of destroy's preservation
    call,             \* the last host call and what it returned
    ncalls,           \* host calls made so far
    mm,               \* the last allocator request and its outcome
    thrown,           \* the last error raised inside the interpreter
    stopping,         \* sandbox_stop's hook (lstop) is the installed hook
    stopped,          \* sandbox_stop was called during this run of the script
    plugin_type,      \* the plugin type sandbox_init was given
    globals,          \* the host functions that are globals of the script
    creation,         \* what lua_sandbox_create was asked and what it returned
    lua_top,          \* values left on the interpreter's stack between calls
    cb,               \* the circular buffer the script made, its fields
    cbop,             \* the last call on the buffer and what it returned
    ser,              \* the script's globals, the state file, the restored globals
    cbfile,           \* the buffer as preserved: before, its text, the stage
    cbhist,           \* the changes add and set made since the last emission
    cbout,            \* the last text output() wrote for the buffer
    json,             \* tables a script built and what output() made of one
    field,            \* what the host gave read_next_field and what it returned
    pb                \* a protobuf buffer with its bytes, and the entry being encoded

vars == <<alive, m_lua, m_status, m_error_message, mem, ins, out,
          m_output, blocks, hookcount, hookleft, pc, entry, pcallDepth,
          executed, data_file, configured_memory, persisted, call, ncalls,
          mm, thrown, stopping, stopped, plugin_type, globals, creation,
          lua_top, cb, cbop, ser, cbfile, cbhist, cbout, json, field, pb>>

\* ---------------------------------------------------------------- helpers
Min(a, b) == IF a < b THEN a ELSE b
Max(a, b) == IF a > b THEN a ELSE b

\* A message: who formatted it, what it says, its length, and whether its
\* last seven characters are "aborted".
NoMsg == [pfx |-> "", text |-> "", len |-> 0, aborted |-> FALSE]
Fixed(t, n) == [pfx |-> "", text |-> t, len |-> n, aborted |-> FALSE]

ScriptErrs ==
    {[pfx |-> "", text |-> "script error", len |-> l, aborted |-> TRUE] :
        l \in AbortedLens}
    \cup
    {[pfx |-> "", text |-> "script error", len |-> l, aborted |-> FALSE] :
        l \in PlainLens}

PrefixLen(fn) ==
    CASE fn = "process_message() " -> 18
      [] fn = "timer_event() " -> 14
      [] fn = "restore_global_data " -> 20
      [] OTHER -> 0

\* snprintf(err, ERROR_SIZE, "<fn>%s", msg): the text is cut to
\* ERROR_SIZE - 1 characters, and a cut text has lost its tail.
Snprintf(fn, m) ==
    [pfx |-> fn, text |-> m.text,
     len |-> Min(PrefixLen(fn) + m.len, ERROR_SIZE - 1),
     aborted |-> m.aborted /\ PrefixLen(fn) + m.len <= ERROR_SIZE - 1]

NoCall == [op |-> "create", ret |-> 0, result |-> "", raised |-> FALSE,
           err |-> NoMsg]
Called(op, ret, result) ==
    [op |-> op, ret |-> ret, result |-> result, raised |-> FALSE,
     err |-> NoMsg]
Failed(op, ret, result, m) ==
    [op |-> op, ret |-> ret, result |-> result, raised |-> TRUE, err |-> m]

\* An allocator request as the interpreter saw it: the sizes passed, whether
\* a block came back, and the memory counters before and after.
NoRequest == [made |-> FALSE, osize |-> 0, nsize |-> 0, ok |-> FALSE,
              lim |-> 0, cur0 |-> 0, max0 |-> 0, cur1 |-> 0, max1 |-> 0]

\* A timestamp in whole seconds: sec + wraps * 2^32 * seconds_per_row of the
\* buffer it is given to.  time_t holds the whole value; an int holds a row
\* number modulo 2^32.
Time(w, s) == [wraps |-> w, sec |-> s]
CBTimes == {Time(w, s) : w \in CBWraps, s \in (-1)..MaxSec}
TimeLE(a, b) == a.wraps < b.wraps \/ (a.wraps = b.wraps /\ a.sec <= b.sec)

\* The buffer before circular_buffer.new, a result (a number or nil), and
\* the record of a call on the buffer.
NoDeltas == [k \in {} |-> 0]
NoBuffer == [m_current_time |-> Time(0, 0), m_seconds_per_row |-> 0,
             m_current_row |-> 0, m_rows |-> 0, m_columns |-> 0,
             m_headers |-> <<>>, m_values |-> <<>>, m_delta |-> FALSE,
             m_ref |-> FALSE, deltas |-> NoDeltas, m_format |-> "cbuf"]
\* Nothing written for the buffer yet: the header was written or not, the
\* rows by their time, the values by time and column.
NoOutput == [n |-> 0, header |-> FALSE, times |-> {}, rows |-> NoDeltas]
NoFile == [stage |-> "none", before |-> NoBuffer, text |-> <<>>]
Number(v) == [nil |-> FALSE, val |-> v]
Nil == [nil |-> TRUE, val |-> 0]
NoOp == [op |-> "none", n |-> 0, ns |-> Time(0, 0), end |-> Time(0, 0),
         column |-> 0, value |-> 0, ret |-> Nil]
Op(name, ns, end, column, value, ret) ==
    [op |-> name, n |-> cbop.n + 1, ns |-> ns, end |-> end,
     column |-> column, value |-> value, ret |-> ret]

\* Values of the script's globals.  A number is counted in units of
\* NumUnit = 10^-9; a string is its index among the strings of the script;
\* a table or a userdata is its identity.
Num(n) == [t |-> "number", v |-> n]
Str(i) == [t |-> "string", v |-> i]
Bool(b) == [t |-> "boolean", v |-> IF b THEN 1 ELSE 0]
Tab(id) == [t |-> "table", v |-> id]
Cbuf(id) == [t |-> "userdata", v |-> id]
NilV == [t |-> "nil", v |-> 0]

\* The tables of an interpreter: table 0 is the table of globals, nt tables
\* and nb circular buffers have been made besides; meta tells which tables
\* have a metatable.
NoTable == [k \in SerKeys |-> NilV]
FreshGlobals ==
    [nt |-> 0, nb |-> 0, tab |-> [i \in 0..MaxTables |-> NoTable],
     meta |-> [i \in 0..MaxTables |-> FALSE]]

\* The times and the values given to add and set of a delta buffer: in and
\* ahead of the window of a new buffer, and one that many rows later that
\* an int does not tell it from an earlier one; a value and its opposite.
DeltaTimes == {Time(0, 1), Time(0, 2), Time(0, 3), Time(1, 1)}
DeltaValues == {500000000, -500000000}

\* Lengths in bytes of the texts, the numbers (serialize_double's buffer
\* holds 20 characters) and the protobuf strings appended to the output.
TextLens == {500, 40000}
NumberLens == {20}
ByteLens == {1000, 40000}

\* The scalars a script assigns: 1, 0.123456789, a string, true.
SerValues == {Num(1000000000), Num(123456789), Str(1), Bool(TRUE)}

\* The tables of a script that output() is given: their keys (one of them
\* a string that starts with an underscore), the values the script puts
\* under them besides the tables themselves, and the tables before any
\* assignment: empty, without metatables, none written.
JsonTables == {1, 2}
JsonKeys == <<"a", "b", "_c">>
JsonValues == {Num(1000000000)}
NoResult == [top |-> 0, ok |-> TRUE, rc |-> 0, err |-> "", seen |-> {},
             written |-> 0]
NoJson == [tab |-> [i \in JsonTables |-> [k \in {"a", "b", "_c"} |-> NilV]],
           meta |-> [i \in JsonTables |-> FALSE],
           result |-> NoResult]

\* What go_lua_read_next_field returns: the field's type (0 string,
\* 1 bytes, 2 integer, 3 double, 4 bool, anything else unknown), whether
\* the name, value and representation pointers are non-null, the count.
FieldTypes == 0..5
FieldCounts == {1, 2}
GoFields ==
    [r0 : FieldTypes, r1 : BOOLEAN, r3 : BOOLEAN, r5 : BOOLEAN,
     r7 : FieldCounts]

\* The value in the stack slot under a C function's first argument: the
\* function being called.
Fn(name) == [t |-> "function", v |-> name]

\* No field read yet.
NoField == [n |-> 0, gr |-> [r0 |-> 0, r1 |-> FALSE, r3 |-> FALSE,
                             r5 |-> FALSE, r7 |-> 1],
            returned |-> <<>>]

\* The lengths of the pieces an entry of Fields is written in (a name, a
\* value), the length of a long first piece, the bytes written before the
\* entry, and the byte at a position of a piece.
ChunkLens == {1, 126, 127, 895}
LongChunk == 16383
PrefixLens == {0, 3, 900}
ByteAt(pos) == 1 + (pos % 100)

\* A long long as pb_write_varint sees it: its 7-bit groups from the low
\* end, and whether the bits above them are all ones (a negative value).
Groups(n) == [neg |-> FALSE,
              g |-> IF n = 0 THEN <<>>
                    ELSE IF n < 128 THEN <<n>>
                    ELSE IF n < 128 * 128 THEN <<n % 128, n \div 128>>
                    ELSE <<n % 128, (n \div 128) % 128, n \div (128 * 128)>>]
LLONG_MAX == [neg |-> FALSE, g |-> <<127, 127, 127, 127, 127, 127, 127, 127, 127>>]
MinusOne == [neg |-> TRUE, g |-> <<>>]
MinusThree == [neg |-> TRUE, g |-> <<125>>]
VarintValues ==
    {Groups(0), Groups(1), Groups(127), Groups(128), Groups(16384),
     LLONG_MAX, MinusOne, MinusThree}

\* An empty output buffer of the initial size; no entry begun.
NoEntry == [d |-> [m_data |-> <<>>, m_pos |-> 0, m_size |-> OUTPUT_SIZE],
            stage |-> "none", len_pos |-> 0, entry |-> <<>>, chunks |-> 0,
            value |-> Groups(0), from |-> 0, overrun |-> FALSE]

\* Nothing assigned, written or restored yet.
NoSer == [stage |-> "none", n |-> 0, live |-> FreshGlobals, file |-> <<>>,
          restored |-> FreshGlobals]

\* ------------------------------------------------------------------- state
TypeOK ==
    /\ alive \in BOOLEAN /\ m_lua \in BOOLEAN
    /\ m_status \in {"Unknown", "Running", "Terminated"}
    /\ pc \in {"host", "script"}
    /\ entry \in {"none", "init", "restore"} \cup Dispatch
    /\ pcallDepth \in 0..MaxPcall
    /\ executed \in 0..MaxExecuted
    /\ lua_top \in 0..MaxCalls

\* A request to lua_sandbox_create: the three limits and what malloc does
\* ("no_sandbox": the structure is not allocated; "no_buffers": the
\* structure is, its output buffer or file name is not).
Requested(m, i, o, a) == [mem |-> m, inst |-> i, out |-> o, alloc |-> a]

\* lua_sandbox_create: the limits are stored, every counter is zero, the
\* status is Unknown, the error slot is empty and no interpreter exists.
Init ==
    /\ alive = TRUE
    /\ m_lua = FALSE
    /\ m_status = "Unknown"
    /\ m_error_message = NoMsg
    /\ \E l \in MemLimits : mem = [lim |-> l, cur |-> 0, max |-> 0]
    /\ \E l \in InstLimits : ins = [lim |-> l, cur |-> 0, max |-> 0]
    /\ \E l \in OutLimits : out = [lim |-> l, cur |-> 0, max |-> 0]
    /\ m_output = [m_size |-> OUTPUT_SIZE, m_pos |-> 0]
    /\ blocks = [b \in Blocks |-> 0]
    /\ hookcount = 0 /\ hookleft = 0
    /\ pc = "host" /\ entry = "none" /\ pcallDepth = 0 /\ executed = 0
    /\ data_file = FALSE
    /\ configured_memory = 0
    /\ persisted = "none"
    /\ call = NoCall
    /\ ncalls = 0
    /\ mm = NoRequest
    /\ thrown = NoMsg
    /\ stopping = FALSE /\ stopped = FALSE
    /\ plugin_type = "" /\ globals = {}
    /\ lua_top = 0
    /\ cb = NoBuffer /\ cbop = NoOp
    /\ ser = NoSer
    /\ cbfile = NoFile
    /\ cbhist = NoDeltas /\ cbout = NoOutput
    /\ json = NoJson
    /\ field = NoField
    /\ pb = NoEntry
    /\ creation = [req |-> Requested(mem.lim, ins.lim, out.lim, "ok"),
                   result |-> "sandbox"]

\* ------------------------------------------------------------- creation
\* Before lua_sandbox_create there is no sandbox.
InitCreate ==
    /\ creation \in
          {[req |-> Requested(m, i, o, a), result |-> "none"] :
              m \in {0, MAX_MEMORY, MAX_MEMORY + 1},
              i \in {0, MAX_INSTRUCTION, MAX_INSTRUCTION + 1},
              o \in {0, MAX_OUTPUT, MAX_OUTPUT + 1},
              a \in {"ok", "no_sandbox", "no_buffers"}}
    /\ alive = FALSE
    /\ m_lua = FALSE
    /\ m_status = "Unknown"
    /\ m_error_message = NoMsg
    /\ mem = [lim |-> 0, cur |-> 0, max |-> 0]
    /\ ins = [lim |-> 0, cur |-> 0, max |-> 0]
    /\ out = [lim |-> 0, cur |-> 0, max |-> 0]
    /\ m_output = [m_size |-> 0, m_pos |-> 0]
    /\ blocks = [b \in Blocks |-> 0]
    /\ hookcount = 0 /\ hookleft = 0
    /\ pc = "host" /\ entry = "none" /\ pcallDepth = 0 /\ executed = 0
    /\ data_file = FALSE
    /\ configured_memory = 0
    /\ persisted = "none"
    /\ call = NoCall
    /\ ncalls = 0
    /\ mm = NoRequest
    /\ thrown = NoMsg
    /\ stopping = FALSE /\ stopped = FALSE
    /\ plugin_type = "" /\ globals = {}
    /\ lua_top = 0
    /\ cb = NoBuffer /\ cbop = NoOp
    /\ ser = NoSer
    /\ cbfile = NoFile
    /\ cbhist = NoDeltas /\ cbout = NoOutput
    /\ json = NoJson
    /\ field = NoField
    /\ pb = NoEntry

\* The output ceiling of lua_sandbox_create (the declaration takes an
\* output limit; MAX_OUTPUT is its ceiling).
OutputCeiling(o) == o > MAX_OUTPUT

\* lua_sandbox_create: NULL if a limit is above its ceiling or the
\* structure cannot be allocated; else the structure is filled in.  The
\* results of the two further mallocs are not checked: when they fail the
\* file name is copied through a null pointer.
lua_sandbox_create ==
    /\ creation.result = "none"
    /\ LET r == creation.req IN
       IF r.mem > MAX_MEMORY \/ r.inst > MAX_INSTRUCTION
            \/ OutputCeiling(r.out)
            \/ r.alloc = "no_sandbox"
       THEN /\ creation' = [creation EXCEPT !.result = "null"]
            /\ UNCHANGED <<alive, mem, ins, out, m_output>>
       ELSE /\ \E res \in (IF r.alloc = "no_buffers"
                            THEN {"crashed", "sandbox"} ELSE {"sandbox"}) :
                  /\ creation' = [creation EXCEPT !.result = res]
                  /\ alive' = (res = "sandbox")
            /\ mem' = [lim |-> r.mem, cur |-> 0, max |-> 0]
            /\ ins' = [lim |-> r.inst, cur |-> 0, max |-> 0]
            /\ out' = [lim |-> r.out, cur |-> 0, max |-> 0]
            /\ m_output' = [m_size |-> OUTPUT_SIZE, m_pos |-> 0]
    /\ m_lua' = FALSE
    /\ m_status' = "Unknown"
    /\ m_error_message' = NoMsg
    /\ UNCHANGED <<blocks, hookcount, hookleft, pc, entry, pcallDepth,
                   executed, data_file, configured_memory, persisted, call,
                   ncalls, mm, thrown, stopping, stopped, plugin_type,
                   globals, lua_top, cb, cbop, ser, cbfile, cbhist, cbout, json, field, pb>>

\* ------------------------------------------------------ private functions

\* memory_manager: the allocator hook.  cur, max and lim are the unsigned
\* (32-bit) usage counters, osize and nsize are size_t; the result says
\* whether a block was returned and gives the counters afterwards.
memory_manager(cur, max, lim, osize, nsize, realloc_ok) ==
    IF nsize = 0
    THEN [ok |-> FALSE, cur |-> (cur - osize) % UINT_WRAP, max |-> max]
    ELSE LET new_state_memory == (cur + nsize - osize) % UINT_WRAP IN
         IF new_state_memory <= lim /\ realloc_ok
         THEN [ok |-> TRUE, cur |-> new_state_memory,
               max |-> Max(max, new_state_memory)]
         ELSE [ok |-> FALSE, cur |-> cur, max |-> max]

\* instruction_usage: hook count minus the count remaining.
instruction_usage == hookcount - hookleft

\* update_output_stats: current follows the buffer position, maximum
\* follows current.
update_output_stats(o, pos) ==
    [o EXCEPT !.cur = pos, !.max = Max(o.max, pos)]

\* dynamic_snprintf: append len bytes, doubling the buffer until
\* len < m_size - m_pos; a failed malloc leaves the buffer as it was.
RECURSIVE GrownSize(_, _, _)
GrownSize(size, pos, len) ==
    IF len >= size - pos THEN GrownSize(size * 2, pos, len) ELSE size

dynamic_snprintf(o, len, malloc_ok) ==
    IF len >= o.m_size - o.m_pos
    THEN IF malloc_ok
         THEN [rc |-> 0,
               o |-> [m_size |-> GrownSize(o.m_size * 2, o.m_pos, len),
                      m_pos |-> o.m_pos + len]]
         ELSE [rc |-> 1, o |-> o]
    ELSE [rc |-> 0, o |-> [o EXCEPT !.m_pos = o.m_pos + len]]

\* sandbox_terminate: close the interpreter (which frees every block),
\* zero the memory in use and mark the sandbox Terminated.
sandbox_terminate ==
    /\ m_lua' = FALSE
    /\ globals' = {}
    /\ lua_top' = 0
    /\ blocks' = [b \in Blocks |-> 0]
    /\ mem' = [mem EXCEPT !.cur = 0]
    /\ m_status' = "Terminated"

\* lsb_terminate(lsb, err): store the message, then terminate (in this
\* tree: snprintf into m_error_message followed by sandbox_terminate).
lsb_terminate(err) ==
    /\ m_error_message' = err
    /\ sandbox_terminate

\* The outcomes of strcmp(err + len - 7, "aborted") == 0 in
\* process_message, where len is what snprintf returned for the untruncated
\* text.  While the text fits, the tail is the message's tail.  When it was
\* cut but err + len - 7 is still inside err[], what is left there is
\* shorter than seven characters.  Beyond that the read is outside err[].
process_message_tail(m) ==
    LET len == PrefixLen("process_message() ") + m.len IN
    IF len <= ERROR_SIZE - 1 THEN {m.aborted}
    ELSE IF len - 7 <= ERROR_SIZE - 1 THEN {FALSE}
    ELSE BOOLEAN

\* timer_event compares the tail of the interpreter's own message, and
\* only when that message has at least seven characters.
timer_event_tail(m) ==
    IF m.len < 7 THEN {FALSE} ELSE {m.aborted}

\* -------------------------------------------- uncaught errors, per entry
hostside == <<alive, data_file, persisted, ncalls, mm, stopped,
              plugin_type, creation, cb, cbop, ser, cbfile, cbhist, cbout, json, field, pb>>


\* lua_sandbox_init: luaL_dofile of the script failed.
InitFail(m) ==
    /\ lsb_terminate(Snprintf("", m))
    /\ pc' = "host" /\ entry' = "none" /\ pcallDepth' = 0
    /\ call' = Failed("init", 2, "load_failed", m)
    /\ UNCHANGED <<ins, configured_memory>>

\* A restore_global_data that stores the message but leaves the sandbox
\* as it is.
RestoreFailKeepsRunning(m) ==
    /\ m_error_message' = Snprintf("restore_global_data ", m)
    /\ UNCHANGED <<m_lua, lua_top, globals, m_status, mem, blocks>>
    /\ pc' = "host" /\ entry' = "none" /\ pcallDepth' = 0
    /\ call' = Failed("init", 2, "restore_failed", m)
    /\ UNCHANGED <<ins, configured_memory>>

\* restore_global_data: luaL_dofile of the state file failed.
RestoreFail(m) ==
    /\ lsb_terminate(Snprintf("restore_global_data ", m))
    /\ pc' = "host" /\ entry' = "none" /\ pcallDepth' = 0
    /\ call' = Failed("init", 2, "restore_failed", m)
    /\ UNCHANGED <<ins, configured_memory>>

\* process_message: lua_pcall returned nonzero.  The aborted path returns
\* without popping the error message lua_pcall left on the stack.
PMFail(m) ==
    /\ \E is_aborted \in process_message_tail(m) :
          IF is_aborted
          THEN /\ lua_top' = lua_top + 1
               /\ UNCHANGED <<m_lua, globals, m_status, m_error_message,
                              mem, blocks>>
          ELSE lsb_terminate(Snprintf("process_message() ", m))
    /\ pc' = "host" /\ entry' = "none" /\ pcallDepth' = 0
    /\ call' = Failed("process_message", 1, "error", m)
    /\ UNCHANGED <<ins, configured_memory>>

\* timer_event: lua_pcall returned nonzero.
TEFail(m) ==
    /\ \E is_aborted \in timer_event_tail(m) :
          IF is_aborted
          THEN /\ lua_top' = lua_top + 1
               /\ UNCHANGED <<m_lua, globals, m_status, m_error_message,
                              mem, blocks>>
          ELSE lsb_terminate(Snprintf("timer_event() ", m))
    /\ pc' = "host" /\ entry' = "none" /\ pcallDepth' = 0
    /\ call' = Failed("timer_event", 1, "error", m)
    /\ UNCHANGED <<ins, configured_memory>>

Uncaught(m) ==
    CASE entry = "init" -> InitFail(m)
      [] entry = "restore" -> RestoreFail(m)
      [] entry = "process_message" -> PMFail(m)
      [] entry = "timer_event" -> TEFail(m)

\* An error raised inside the interpreter unwinds to the innermost
\* protected call: the script's own pcall if it is inside one, else the
\* host's.
Raise(m) ==
    /\ thrown' = m
    /\ IF pcallDepth > 0
       THEN /\ pcallDepth' = pcallDepth - 1
            /\ UNCHANGED <<m_lua, lua_top, globals, m_status, m_error_message, mem, blocks,
                           ins, pc, entry, call, configured_memory>>
       ELSE Uncaught(m)

\* An error whose message the raising function wrote into the error slot
\* before raising it.
RaiseStored(m) ==
    /\ thrown' = m
    /\ IF pcallDepth > 0
       THEN /\ pcallDepth' = pcallDepth - 1
            /\ m_error_message' = m
            /\ UNCHANGED <<m_lua, lua_top, globals, m_status, mem, blocks, ins, pc, entry,
                           call, configured_memory>>
       ELSE Uncaught(m)

NoRaise ==
    UNCHANGED <<m_lua, lua_top, globals, m_status, m_error_message, mem, blocks, ins, pc,
                entry, pcallDepth, call, configured_memory, thrown>>


\* ------------------------------------------------------------ host calls
scriptside == <<m_output, out, hookcount, hookleft, stopping, executed>>

\* lua_sethook(lua, instruction_manager, LUA_MASKCOUNT, count)
sethook(count) ==
    /\ hookcount' = count
    /\ hookleft' = count
    /\ stopping' = FALSE

\* The interpreter is absent: init has not run, or the sandbox was
\* terminated.
NoInterpreter == ~m_lua

\* The host makes a call into a sandbox it has not destroyed, between two
\* runs of the interpreter.
HostCall ==
    /\ alive /\ pc = "host"
    /\ ncalls < MaxCalls
    /\ ncalls' = ncalls + 1

hostkept == <<alive, data_file, persisted, mm, thrown, plugin_type,
              creation, cb, cbop, ser, cbfile, cbhist, cbout, json, field, pb>>

\* sandbox_init registers the host functions of the plugin type before it
\* calls lsb_init.
Registered(t) ==
    {"read_config", "decode_message"}
    \cup (IF t = "input" THEN {"inject_message"} ELSE {})
    \cup (IF t = "output" THEN {"read_message", "read_next_field"} ELSE {})
    \cup (IF t \in {"", "filter", "decoder", "encoder"}
          THEN {"read_message", "read_next_field", "inject_payload",
                "inject_message"}
          ELSE {})
    \cup (IF t \in {"decoder", "encoder"} THEN {"write_message"} ELSE {})

add_to_payload(t) == t \in {"", "filter", "decoder", "encoder"}

\* sandbox_init after lsb_init returned 0: for the types that get it the
\* global add_to_payload is given the value of the global output (nil if
\* there is none), then the global output is removed.
Renamed(g, t) ==
    (IF add_to_payload(t)
     THEN IF "output" \in g THEN g \cup {"add_to_payload"}
          ELSE g \ {"add_to_payload"}
     ELSE g) \ {"output"}

\* sandbox_init without a plugin type: return 1.
InitNoType ==
    /\ HostCall
    /\ call' = Called("init", 1, "no_type")
    /\ UNCHANGED <<m_lua, lua_top, globals, m_status, m_error_message, mem, blocks,
                   ins, pc, entry, pcallDepth, configured_memory>>
    /\ UNCHANGED scriptside
    /\ UNCHANGED <<hostkept, stopped>>

\* lua_sandbox_init, when an interpreter already exists: nothing to do;
\* sandbox_init has registered the type's functions and goes on to rename
\* output.
InitNoop(path, t) ==
    /\ HostCall /\ ~NoInterpreter
    /\ call' = Called("init", 0, "noop")
    /\ globals' = Renamed(globals \cup Registered(t), t)
    /\ UNCHANGED <<m_lua, lua_top, m_status, m_error_message, mem, blocks, ins, pc,
                   entry, pcallDepth, configured_memory>>
    /\ UNCHANGED scriptside
    /\ plugin_type' = t
    /\ UNCHANGED <<alive, data_file, persisted, mm, thrown, stopped,
                   creation,
                   cb, cbop, ser, cbfile, cbhist, cbout, json, field, pb>>

\* lua_sandbox_init, lua_newstate returned NULL.
InitNoState ==
    /\ HostCall /\ NoInterpreter
    /\ lsb_terminate(Fixed("lua_newstate out of memory", 26))
    /\ call' = Called("init", 3, "newstate_failed")
    /\ UNCHANGED <<ins, pc, entry, pcallDepth, configured_memory>>
    /\ UNCHANGED scriptside
    /\ UNCHANGED <<hostkept, stopped>>

\* lua_sandbox_init: create the interpreter, install the libraries and the
\* output functions, arm the instruction hook and run the script file.
InitBegin(path, t) ==
    /\ HostCall /\ NoInterpreter
    /\ m_lua' = TRUE
    /\ lua_top' = 0
    /\ plugin_type' = t
    /\ globals' = Registered(t) \cup {"output"}
    /\ sethook(ins.lim)
    /\ pc' = "script" /\ entry' = "init" /\ pcallDepth' = 0
    /\ executed' = 0
    /\ data_file' = path
    /\ call' = Called("init", 0, "running")
    /\ UNCHANGED <<m_status, m_error_message, mem, blocks, ins,
                   configured_memory, m_output, out, alive, persisted,
                   mm, thrown, creation, cb, cbop, ser, cbfile, cbhist, cbout, json, field, pb>>
    /\ stopped' = FALSE

\* The script's chunk or function returns to the host.  With lstop
\* installed the return is a hook event, and lstop raises instead.
Returns == ~stopping

\* lua_sandbox_init after the script file ran: record the instructions
\* used and set the status to Running; with a state path go on into
\* restore_global_data, which raises the memory limit, clears the
\* instruction hook and runs the state file.
InitReturn ==
    /\ pc = "script" /\ entry = "init" /\ pcallDepth = 0
    /\ Returns
    /\ ins' = [ins EXCEPT !.cur = instruction_usage,
                          !.max = Max(ins.max, instruction_usage)]
    /\ m_status' = "Running"
    /\ IF data_file
       THEN /\ configured_memory' = mem.lim
            /\ mem' = [mem EXCEPT !.lim = MAX_MEMORY * 2]
            /\ sethook(0)
            /\ entry' = "restore"
            /\ executed' = 0
            /\ UNCHANGED <<pc, call, globals>>
       ELSE /\ pc' = "host" /\ entry' = "none"
            /\ call' = Called("init", 0, "ok")
            /\ globals' = Renamed(globals, plugin_type)
            /\ UNCHANGED <<mem, configured_memory, hookcount, hookleft,
                           stopping, executed>>
    /\ UNCHANGED <<m_lua, lua_top, m_error_message, blocks, pcallDepth, m_output,
                   out>>
    /\ UNCHANGED <<hostside, thrown>>

\* restore_global_data after the state file ran: put the configured limit
\* back and restart the maximum from the memory now in use.
RestoreReturn ==
    /\ pc = "script" /\ entry = "restore" /\ pcallDepth = 0
    /\ Returns
    /\ mem' = [mem EXCEPT !.lim = configured_memory, !.max = mem.cur]
    /\ pc' = "host" /\ entry' = "none"
    /\ call' = Called("init", 0, "restored")
    /\ globals' = Renamed(globals, plugin_type)
    /\ UNCHANGED <<m_lua, lua_top, m_status, m_error_message, blocks, ins,
                   pcallDepth, configured_memory>>
    /\ UNCHANGED scriptside
    /\ UNCHANGED <<hostside, thrown>>

\* A dispatch that, finding no interpreter, also clears the error slot.
DispatchRejectedClearsError(fn) ==
    /\ HostCall /\ NoInterpreter
    /\ call' = Called(fn, 1, "rejected")
    /\ m_error_message' = NoMsg
    /\ UNCHANGED <<m_lua, lua_top, globals, m_status, mem, blocks, ins, pc, entry, pcallDepth,
                   configured_memory>>
    /\ UNCHANGED scriptside
    /\ UNCHANGED <<hostkept, stopped>>

\* process_message / timer_event without an interpreter: return 1.
DispatchRejected(fn) ==
    /\ HostCall /\ NoInterpreter
    /\ call' = Called(fn, 1, "rejected")
    /\ UNCHANGED <<m_lua, lua_top, globals, m_status, m_error_message, mem, blocks, ins, pc,
                   entry, pcallDepth, configured_memory>>
    /\ UNCHANGED scriptside
    /\ UNCHANGED <<hostkept, stopped>>

\* lsb_pcall_setup failed: the global of that name is not a function
\* (the script never defined it, or has since overwritten it).
DispatchNotFound(fn) ==
    /\ HostCall /\ ~NoInterpreter
    /\ sethook(ins.lim)
    /\ lsb_terminate([pfx |-> fn \o "() ",
                      text |-> "function was not found",
                      len |-> Len(fn) + 25, aborted |-> FALSE])
    /\ call' = Called(fn, 1, "not_found")
    /\ UNCHANGED <<ins, pc, entry, pcallDepth, configured_memory, m_output,
                   out, executed>>
    /\ UNCHANGED <<hostkept, stopped>>

\* lsb_pcall_setup succeeded: the hook is armed with the instruction limit
\* and lua_pcall enters the script's function.
DispatchBegin(fn) ==
    /\ HostCall /\ ~NoInterpreter
    /\ sethook(ins.lim)
    /\ pc' = "script" /\ entry' = fn /\ pcallDepth' = 0
    /\ executed' = 0
    /\ call' = Called(fn, 0, "running")
    /\ UNCHANGED <<m_lua, lua_top, globals, m_status, m_error_message, mem, blocks, ins,
                   configured_memory, m_output, out>>
    /\ UNCHANGED hostkept
    /\ stopped' = FALSE

\* lsb_pcall_teardown: record the instructions the call used.
lsb_pcall_teardown ==
    ins' = [ins EXCEPT !.cur = instruction_usage,
                       !.max = Max(ins.max, instruction_usage)]

\* process_message after the script's function returned two values: the
\* first is a number (status) or not, the second is nil, a string or
\* something else.  The call returns the script's status.  The values are
\* read at the absolute stack indices 1 and 2: with an error message left
\* on the stack by an earlier call, index 1 is that string.
PMReturn(numeric, status, r2) ==
    /\ pc = "script" /\ entry = "process_message" /\ pcallDepth = 0
    /\ Returns
    /\ pc' = "host" /\ entry' = "none"
    /\ IF ~numeric \/ lua_top > 0
       THEN /\ lsb_terminate([pfx |-> "process_message() ",
                              text |-> "must return a numeric status code",
                              len |-> 51, aborted |-> FALSE])
            /\ call' = Called("process_message", 1, "bad_status")
            /\ UNCHANGED ins
       ELSE IF r2 = "nil"
       THEN /\ m_error_message' = NoMsg
            /\ lsb_pcall_teardown
            /\ call' = Called("process_message", status, "ok")
            /\ UNCHANGED <<m_lua, lua_top, globals, m_status, mem, blocks>>
       ELSE IF r2 = "string"
       THEN /\ m_error_message' = Fixed("script status message", 21)
            /\ lsb_pcall_teardown
            /\ call' = Called("process_message", status, "ok")
            /\ UNCHANGED <<m_lua, lua_top, globals, m_status, mem, blocks>>
       ELSE /\ lsb_terminate([pfx |-> "process_message() ",
                              text |-> "must return a nil or string error message",
                              len |-> 59, aborted |-> FALSE])
            /\ call' = Called("process_message", 1, "bad_message")
            /\ UNCHANGED ins
    /\ UNCHANGED <<pcallDepth, configured_memory>>
    /\ UNCHANGED scriptside
    /\ UNCHANGED <<hostside, thrown>>

\* timer_event after the script's function returned.
TEReturn ==
    /\ pc = "script" /\ entry = "timer_event" /\ pcallDepth = 0
    /\ Returns
    /\ pc' = "host" /\ entry' = "none"
    /\ lsb_pcall_teardown
    /\ call' = Called("timer_event", 0, "ok")
    /\ UNCHANGED <<m_lua, lua_top, globals, m_status, m_error_message, mem, blocks,
                   pcallDepth, configured_memory>>
    /\ UNCHANGED scriptside
    /\ UNCHANGED <<hostside, thrown>>

\* What stops preserve_global_data: the state file does not open, the key
\* and table buffers are not allocated ("memory"), a buffer cannot grow
\* (dynamic_snprintf returns 1 and writes no message), a key has a type
\* serialize_data cannot write, or serialize_circular_buffer_delta calls
\* luaL_error outside any protected call ("raised").
PreserveOutcomes == {"ok", "open", "memory", "grow", "type", "raised"}

\* The message preserve_global_data leaves in m_error_message.
preserve_error(outcome, old) ==
    CASE outcome = "open" -> Fixed("preserve_global_data could not open", 35)
      [] outcome = "memory" -> Fixed("preserve_global_data out of memory", 34)
      [] outcome = "type" -> Fixed("serialize_data cannot preserve type", 43)
      [] OTHER -> old

\* The state file after preserve_global_data: complete, or gone (never
\* created, or removed once fclose has run); an error raised during the
\* walk leaves the function before fclose and remove.
preserved_file(outcome) ==
    CASE outcome = "ok" -> "ok"
      [] outcome = "raised" -> "partial"
      [] OTHER -> "failed"

\* lua_sandbox_destroy: with a state path preserve the globals first; when
\* that fails copy the message into a block from malloc (which may return
\* NULL: the copy is then not made); then terminate and release the
\* sandbox.  The interpreter is not looked at before preserve_global_data
\* reads its globals: without an interpreter lua_getglobal reads through a
\* null pointer, after which the call may not return, or return with or
\* without an error string.  An error raised outside a protected call does
\* not return to the host.
lua_sandbox_destroy(path, outcome, malloc_ok) ==
    /\ HostCall
    /\ alive' = FALSE
    /\ persisted' = IF ~path THEN "skipped"
                    ELSE IF NoInterpreter THEN "undefined"
                    ELSE preserved_file(outcome)
    /\ IF path /\ NoInterpreter
       THEN \E returns \in BOOLEAN, err \in {"", "error"} :
               IF returns
               THEN /\ sandbox_terminate
                    /\ call' = Called("destroy", 0, err)
                    /\ UNCHANGED m_error_message
               ELSE /\ call' = Failed("destroy", 0, "", m_error_message)
                    /\ UNCHANGED <<m_lua, globals, lua_top, blocks, mem,
                                   m_status, m_error_message>>
       ELSE IF path /\ outcome = "raised"
       THEN /\ call' = Failed("destroy", 0, "", m_error_message)
            /\ UNCHANGED <<m_lua, globals, lua_top, blocks, mem, m_status,
                           m_error_message>>
       ELSE /\ sandbox_terminate
            /\ m_error_message' =
                  IF path THEN preserve_error(outcome, m_error_message)
                  ELSE m_error_message
            /\ call' = Called("destroy", 0,
                              IF path /\ outcome # "ok" /\ malloc_ok
                              THEN "error" ELSE "")
    /\ UNCHANGED <<ins, pc, entry, pcallDepth, configured_memory,
                   data_file, mm, thrown, stopped, plugin_type, creation,
                   cb, cbop, ser, cbfile, cbhist, cbout, json, field, pb>>
    /\ UNCHANGED scriptside

\* The host destroys a sandbox whose state file opens or not.
Destroy(path, preserved) ==
    lua_sandbox_destroy(path, IF preserved THEN "ok" ELSE "open", TRUE)


\* ---------------------------------------------------------- script steps

\* instruction_manager: the count hook raises an error.
instruction_manager == Raise(Fixed("instruction_limit exceeded", 26))

\* lstop: the hook sandbox_stop installed removes the hook and raises
\* "shutting down".
lstop ==
    /\ hookcount' = 0 /\ hookleft' = 0 /\ stopping' = FALSE
    /\ Raise(Fixed("shutting down", 13))

\* sandbox_stop: called by the host (from another thread, also while the
\* script runs) on a sandbox that has an interpreter; it replaces the hook
\* by lstop, called on every call, return and instruction.
sandbox_stop ==
    /\ alive /\ ~NoInterpreter
    /\ ~stopping
    /\ hookcount' = 1 /\ hookleft' = 1 /\ stopping' = TRUE
    /\ stopped' = (pc = "script")
    /\ UNCHANGED <<alive, m_lua, lua_top, globals, m_status, m_error_message, mem, ins, out,
                   m_output, blocks, pc, entry, pcallDepth, executed,
                   data_file, configured_memory, persisted, call, ncalls,
                   mm, thrown, plugin_type, creation,
                   cb, cbop, ser, cbfile, cbhist, cbout, json, field, pb>>

\* The interpreter is about to execute one instruction.  With lstop
\* installed (on calls, returns and every instruction) the hook is called
\* instead.  With a count hook installed the counter is decremented first;
\* when it reaches zero it is reset and the hook is called instead.
ScriptInstr ==
    /\ pc = "script"
    /\ stopping \/ executed < MaxExecuted
    /\ IF stopping
       THEN lstop /\ UNCHANGED executed
       ELSE IF hookcount > 0 /\ hookleft = 1
       THEN /\ hookleft' = hookcount
            /\ instruction_manager
            /\ UNCHANGED <<hookcount, stopping, executed>>
       ELSE /\ hookleft' = IF hookcount > 0 THEN hookleft - 1 ELSE hookleft
            /\ executed' = executed + 1
            /\ NoRaise
            /\ UNCHANGED <<hookcount, stopping>>
    /\ UNCHANGED <<m_output, out>>
    /\ UNCHANGED hostside

\* pcall(f, ...): the script enters a protected call (pcall is not among
\* the base functions load_lua_libraries removes).  With lstop installed
\* the call is a hook event: see ScriptInstr.
ScriptPcall ==
    /\ pc = "script" /\ ~stopping
    /\ pcallDepth < MaxPcall
    /\ pcallDepth' = pcallDepth + 1
    /\ UNCHANGED <<m_lua, lua_top, globals, m_status, m_error_message, mem, blocks, ins, pc,
                   entry, call, configured_memory>>
    /\ UNCHANGED scriptside
    /\ UNCHANGED <<hostside, thrown>>

\* The function called by pcall returns normally.
ScriptPcallDone ==
    /\ pc = "script" /\ ~stopping
    /\ pcallDepth > 0
    /\ pcallDepth' = pcallDepth - 1
    /\ UNCHANGED <<m_lua, lua_top, globals, m_status, m_error_message, mem, blocks, ins, pc,
                   entry, call, configured_memory>>
    /\ UNCHANGED scriptside
    /\ UNCHANGED <<hostside, thrown>>

\* error(msg): the script raises an error of its own.
ScriptError(m) ==
    /\ pc = "script"
    /\ Raise(m)
    /\ UNCHANGED scriptside
    /\ UNCHANGED hostside

\* The message output() and inject_message() raise when the output is
\* over its limit or an append failed: "output_limit exceeded" if the
\* error slot is empty, else whatever the error slot holds.
output_error ==
    IF m_error_message.len = 0
    THEN Fixed("output_limit exceeded", 21)
    ELSE m_error_message

\* output(arg): append the argument (len bytes of text), update the output
\* statistics, and raise if the append failed or the limit is exceeded.
\* A table argument that does not serialize (it refers to itself) has
\* written its message into the error slot, and that is what is raised.
output(len, malloc_ok, serialized) ==
    LET r == dynamic_snprintf(m_output, len, malloc_ok)
        o == update_output_stats(out, r.o.m_pos)
    IN /\ m_output' = r.o
       /\ out' = o
       /\ IF ~serialized
          THEN RaiseStored(
                 Fixed("table contains an internal or circular reference",
                       48))
          ELSE IF r.rc # 0 \/ o.cur > o.lim THEN Raise(output_error)
          ELSE NoRaise

ScriptOutput(len, malloc_ok, serialized) ==
    /\ pc = "script"
    /\ m_output.m_pos + len <= MaxOutPos
    /\ output(len, malloc_ok, serialized)
    /\ UNCHANGED <<hookcount, hookleft, stopping, executed>>
    /\ UNCHANGED hostside

\* The script stores the function the global output holds in a global of
\* its own (keep = output).
ScriptKeep ==
    /\ pc = "script"
    /\ "output" \in globals /\ "keep" \notin globals
    /\ globals' = globals \cup {"keep"}
    /\ UNCHANGED <<m_lua, lua_top, m_status, m_error_message, mem, blocks,
                   ins, pc, entry, pcallDepth, call, configured_memory,
                   thrown>>
    /\ UNCHANGED scriptside
    /\ UNCHANGED hostside

\* The globals through which a script reaches the output function.
OutputNames == {"output", "add_to_payload", "keep"}

\* The script calls the output function through a global that holds it.
ScriptCallOutput(len, malloc_ok, serialized) ==
    /\ globals \cap OutputNames # {}
    /\ ScriptOutput(len, malloc_ok, serialized)

\* The script functions that hand a payload to the host, as luaL_error
\* names them.
InjectFunctions == {"inject_message()", "inject_payload()"}

\* inject_error with case 5 falling through to the default case.
inject_error_falls_through(fn, result) ==
    CASE result = 1 -> Fixed(fn \o " protobuf unmarshal failed", 42)
      [] result = 2 -> Fixed(fn \o " exceeded InjectMessage count", 45)
      [] result = 3 -> Fixed(fn \o " exceeded MaxMsgLoops", 37)
      [] result = 4 -> Fixed(fn \o " creates a circular reference (matches this plugin's message_matcher)", 85)
      [] OTHER -> Fixed(fn \o " unknown error", 30)

\* inject_error: the script error for a nonzero inject result.
inject_error(fn, result) ==
    CASE result = 1 -> Fixed(fn \o " protobuf unmarshal failed", 42)
      [] result = 2 -> Fixed(fn \o " exceeded InjectMessage count", 45)
      [] result = 3 -> Fixed(fn \o " exceeded MaxMsgLoops", 37)
      [] result = 4 -> Fixed(fn \o " creates a circular reference (matches this plugin's message_matcher)", 85)
      [] result = 5 ->
           [pfx |-> "", text |-> fn \o " aborted", len |-> 24,
            aborted |-> TRUE]
      [] OTHER -> Fixed(fn \o " unknown error", 30)

\* inject_message() / inject_payload(): hand the output buffer to the
\* host.  With an empty buffer nothing happens; else the statistics are
\* updated and the limit checked, the host is called, the position is
\* reset, and a nonzero result is raised as a script error.
inject_message(fn, result) ==
    IF m_output.m_pos = 0
    THEN NoRaise /\ UNCHANGED <<m_output, out>>
    ELSE LET o == update_output_stats(out, m_output.m_pos) IN
         /\ out' = o
         /\ IF o.cur > o.lim
            THEN Raise(output_error) /\ UNCHANGED m_output
            ELSE /\ m_output' = [m_output EXCEPT !.m_pos = 0]
                 /\ IF result # 0 THEN Raise(inject_error(fn, result))
                    ELSE NoRaise

ScriptInject(fn, result) ==
    /\ pc = "script"
    /\ inject_message(fn, result)
    /\ UNCHANGED <<hookcount, hookleft, stopping, executed>>
    /\ UNCHANGED hostside

Request(osize, nsize, r) ==
    [made |-> TRUE, osize |-> osize, nsize |-> nsize, ok |-> r.ok,
     lim |-> mem.lim, cur0 |-> mem.cur, max0 |-> mem.max,
     cur1 |-> r.cur, max1 |-> r.max]

\* The interpreter asks the allocator for nsize KiB for block b (a new
\* block or a resize); a refusal is raised as "not enough memory".
ScriptAlloc(b, nsize, realloc_ok) ==
    /\ pc = "script"
    /\ LET r == memory_manager(mem.cur, mem.max, mem.lim, blocks[b], nsize,
                               realloc_ok)
       IN /\ mm' = Request(blocks[b], nsize, r)
          /\ IF r.ok
             THEN /\ mem' = [mem EXCEPT !.cur = r.cur, !.max = r.max]
                  /\ blocks' = [blocks EXCEPT ![b] = nsize]
                  /\ UNCHANGED <<m_lua, lua_top, globals, m_status, m_error_message, ins, pc,
                                 entry, pcallDepth, call, configured_memory,
                                 thrown>>
             ELSE Raise(Fixed("not enough memory", 17))
    /\ UNCHANGED scriptside
    /\ UNCHANGED <<alive, data_file, persisted, ncalls, stopped,
                   plugin_type, creation,
                   cb, cbop, ser, cbfile, cbhist, cbout, json, field, pb>>

\* The interpreter frees block b.
ScriptFree(b) ==
    /\ pc = "script"
    /\ blocks[b] > 0
    /\ LET r == memory_manager(mem.cur, mem.max, mem.lim, blocks[b], 0, TRUE)
       IN /\ mem' = [mem EXCEPT !.cur = r.cur, !.max = r.max]
          /\ mm' = Request(blocks[b], 0, r)
    /\ blocks' = [blocks EXCEPT ![b] = 0]
    /\ UNCHANGED <<m_lua, lua_top, globals, m_status, m_error_message, ins, pc, entry,
                   pcallDepth, call, configured_memory, thrown>>
    /\ UNCHANGED scriptside
    /\ UNCHANGED <<alive, data_file, persisted, ncalls, stopped,
                   plugin_type, creation,
                   cb, cbop, ser, cbfile, cbhist, cbout, json, field, pb>>

\* ------------------------------------------------------- circular buffer
\* Every variable of the sandbox proper: the buffer's methods touch none.
sandbox == <<alive, m_lua, m_status, m_error_message, mem, ins, out,
             m_output, blocks, hookcount, hookleft, pc, entry, pcallDepth,
             executed, data_file, configured_memory, persisted, call,
             ncalls, mm, thrown, stopping, stopped, plugin_type, globals,
             creation, lua_top>>

\* C's / and % on signed operands truncate toward zero.
CDiv(a, b) == IF a >= 0 THEN a \div b ELSE -((-a) \div b)
CRem(a, b) == a - b * CDiv(a, b)

\* 2^32 modulo n, and an int converted to unsigned and taken modulo n.
Pow32Mod(n) == ((65536 % n) * (65536 % n)) % n
UMod(x, n) == IF x >= 0 THEN x % n ELSE ((x % n) + Pow32Mod(n)) % n

\* Two timestamps are less than d seconds apart.  Timestamps that differ in
\* their 2^32-row spans are further apart than any d used here.
Within(a, b, d) ==
    /\ a.wraps = b.wraps
    /\ (IF a.sec >= b.sec THEN a.sec - b.sec ELSE b.sec - a.sec) < d

Cells(c) == 0..(c.m_rows * c.m_columns - 1)

\* get_start_time
get_start_time(c) ==
    Time(c.m_current_time.wraps,
         c.m_current_time.sec - c.m_seconds_per_row * (c.m_rows - 1))

\* clear_rows: zero num_rows rows after the current one, wrapping; all of
\* them when num_rows is at least the number of rows.
clear_rows(c, num_rows) ==
    IF num_rows >= c.m_rows
    THEN [i \in Cells(c) |-> 0]
    ELSE LET swept == {(c.m_current_row + x) % c.m_rows : x \in 1..num_rows}
         IN [i \in Cells(c) |->
                IF (i \div c.m_columns) \in swept THEN 0 ELSE c.m_values[i]]

\* The bucket of a timestamp: t - (t % seconds_per_row), where % truncates
\* toward zero; only a time of the first 2^32-row span can be negative.
Bucket(c, ns) ==
    Time(ns.wraps,
         ns.sec - (IF ns.wraps = 0 THEN CRem(ns.sec, c.m_seconds_per_row)
                   ELSE ns.sec % c.m_seconds_per_row))

\* (int)(t / seconds_per_row) for a time that is a multiple of
\* seconds_per_row: the conversion to int drops the 2^32-row spans.
RowNumber(c, t) == CDiv(t.sec, c.m_seconds_per_row)

\* check_row: the row of a timestamp, -1 when it is rows or more away from
\* the current row, and the buffer after the call (advanced when asked to
\* and the timestamp is later than the current time).
check_row(c, ns, advance) ==
    LET t == Bucket(c, ns)
        current_row == RowNumber(c, c.m_current_time)
        requested_row == RowNumber(c, t)
        row_delta == requested_row - current_row
        row == UMod(requested_row, c.m_rows)
        abs == IF row_delta < 0 THEN -row_delta ELSE row_delta
    IN IF row_delta > 0 /\ advance
       THEN [row |-> row,
             cb |-> [c EXCEPT !.m_values = clear_rows(c, row_delta),
                              !.m_current_time = t,
                              !.m_current_row = row]]
       ELSE IF abs >= c.m_rows
       THEN [row |-> -1, cb |-> c]
       ELSE [row |-> row, cb |-> c]

\* circular_buffer_add_delta: add value to the pending delta of the bucket
\* and column.  The side table is keyed by the bucket converted to int.
circular_buffer_add_delta(c, ns, column, value) ==
    IF value = 0 THEN c
    ELSE LET t == Bucket(c, ns).sec
             old == IF <<t, column>> \in DOMAIN c.deltas
                    THEN c.deltas[<<t, column>>] ELSE 0
         IN [c EXCEPT !.m_ref = TRUE,
                      !.deltas = [k \in DOMAIN c.deltas \cup {<<t, column>>} |->
                                     IF k = <<t, column>> THEN old + value
                                     ELSE c.deltas[k]]]

\* The record of what add and set did to a delta buffer since its deltas
\* were last written: the change of every bucket and column a call that
\* returned a number was made for.
Changed(h, bucket, column, value) ==
    LET k == <<bucket, column>>
    IN [x \in DOMAIN h \cup {k} |->
           IF x = k THEN (IF k \in DOMAIN h THEN h[k] ELSE 0) + value
           ELSE h[x]]

\* The buffer circular_buffer.new makes: the current time is that of the
\* last row, the cells are zero, the headers are Column_<i> in "count",
\* summed.
ColumnName(i) == IF i = 0 THEN "Column_1" ELSE "Column_2"
NewBuffer(rows, columns, seconds_per_row, delta) ==
    [m_current_time |-> Time(0, seconds_per_row * (rows - 1)),
     m_seconds_per_row |-> seconds_per_row,
     m_current_row |-> rows - 1,
     m_rows |-> rows, m_columns |-> columns,
     m_headers |-> [i \in 0..(columns - 1) |->
                      [m_name |-> ColumnName(i), m_unit |-> "count",
                       m_aggregation |-> "sum"]],
     m_values |-> [i \in 0..(rows * columns - 1) |-> 0],
     m_delta |-> delta, m_ref |-> FALSE, deltas |-> NoDeltas,
     m_format |-> "cbuf"]

\* circular_buffer.new(rows, columns, seconds_per_row, delta)
circular_buffer_new(rows, columns, seconds_per_row, delta) ==
    /\ cb = NoBuffer
    /\ 1 < rows /\ 0 < columns
    /\ 0 < seconds_per_row /\ seconds_per_row <= seconds_in_hour
    /\ cb' = NewBuffer(rows, columns, seconds_per_row, delta)
    /\ cbop' = Op("new", Time(0, 0), Time(0, 0), 0, 0, Nil)
    /\ UNCHANGED <<sandbox, ser, cbfile, cbhist, cbout, json, field, pb>>

\* cb:add(ns, column, value); column is zero based here, as after
\* check_column.
circular_buffer_add(ns, column, value) ==
    /\ cb # NoBuffer /\ cbop.n < MaxOps /\ cbfile.stage = "none"
    /\ column \in 0..(cb.m_columns - 1)
    /\ LET chk == check_row(cb, ns, TRUE)
           c == chk.cb
           i == chk.row * c.m_columns + column
       IN IF chk.row # -1
          THEN LET c1 == [c EXCEPT !.m_values[i] = @ + value]
               IN /\ cb' = IF c.m_delta
                           THEN circular_buffer_add_delta(c1, ns, column, value)
                           ELSE c1
                  /\ cbop' = Op("add", ns, ns, column, value,
                                Number(c1.m_values[i]))
                  /\ cbhist' = IF c.m_delta
                               THEN Changed(cbhist, Bucket(c, ns), column,
                                            value)
                               ELSE cbhist
          ELSE /\ cb' = c
               /\ cbop' = Op("add", ns, ns, column, value, Nil)
               /\ UNCHANGED cbhist
    /\ UNCHANGED <<sandbox, ser, cbfile, cbout, json, field, pb>>

\* cb:get(ns, column)
circular_buffer_get(ns, column) ==
    /\ cb # NoBuffer /\ cbop.n < MaxOps /\ cbfile.stage = "none"
    /\ column \in 0..(cb.m_columns - 1)
    /\ LET chk == check_row(cb, ns, FALSE)
       IN cbop' = Op("get", ns, ns, column, 0,
                     IF chk.row # -1
                     THEN Number(cb.m_values[chk.row * cb.m_columns + column])
                     ELSE Nil)
    /\ UNCHANGED cb
    /\ UNCHANGED <<sandbox, ser, cbfile, cbhist, cbout, json, field, pb>>

\* cb:set(ns, column, value)
circular_buffer_set(ns, column, value) ==
    /\ cb # NoBuffer /\ cbop.n < MaxOps /\ cbfile.stage = "none"
    /\ column \in 0..(cb.m_columns - 1)
    /\ LET chk == check_row(cb, ns, TRUE)
           c == chk.cb
           i == chk.row * c.m_columns + column
       IN IF chk.row # -1
          THEN LET old == c.m_values[i]
                   c1 == [c EXCEPT !.m_values[i] = value]
               IN /\ cb' = IF c.m_delta
                           THEN circular_buffer_add_delta(c1, ns, column,
                                                          value - old)
                           ELSE c1
                  /\ cbop' = Op("set", ns, ns, column, value, Number(value))
                  /\ cbhist' = IF c.m_delta
                               THEN Changed(cbhist, Bucket(c, ns), column,
                                            value - old)
                               ELSE cbhist
          ELSE /\ cb' = c
               /\ cbop' = Op("set", ns, ns, column, value, Nil)
               /\ UNCHANGED cbhist
    /\ UNCHANGED <<sandbox, ser, cbfile, cbout, json, field, pb>>

\* cb:add or cb:set whose column (argument 3) is out of range or whose value
\* (argument 4) is not a number.  Both functions call check_row, asking it
\* to advance, before check_column and luaL_checknumber look at those
\* arguments; the error is raised by whichever check fails, after check_row.
circular_buffer_argument_error(fn, ns, arg) ==
    /\ cb # NoBuffer /\ cbop.n < MaxOps /\ cbfile.stage = "none"
    /\ fn \in {"add", "set"} /\ arg \in {3, 4}
    /\ cb' = check_row(cb, ns, TRUE).cb
    /\ cbop' = Op(fn \o "_error", ns, ns, arg, 0, Nil)
    /\ UNCHANGED <<sandbox, ser, cbfile, cbhist, cbout, json, field, pb>>

\* set_header's clean-up of a name (every character that is not a letter
\* or a digit becomes "_") and of a unit ("/" and "*" are kept as well).
SanitizedName(name) == IF name = "http 5xx" THEN "http_5xx" ELSE name
SanitizedUnit(unit) == unit

\* The header set_header stores.
Header(name, unit, aggregation) ==
    [m_name |-> SanitizedName(name), m_unit |-> SanitizedUnit(unit),
     m_aggregation |-> aggregation]

\* cb:set_header(column, name, unit, aggregation)
circular_buffer_set_header(column, name, unit, aggregation) ==
    /\ cb # NoBuffer /\ cbop.n < MaxOps /\ cbfile.stage = "none"
    /\ column \in 0..(cb.m_columns - 1)
    /\ cb' = [cb EXCEPT !.m_headers[column] = Header(name, unit, aggregation)]
    /\ cbop' = Op("set_header", Time(0, 0), Time(0, 0), column, 0,
                  Number(column + 1))
    /\ UNCHANGED <<sandbox, ser, cbfile, cbhist, cbout, json, field, pb>>

\* A compute_sum that stops before the end row.
RECURSIVE compute_sum_before_end(_, _, _, _)
compute_sum_before_end(c, column, start_row, end_row) ==
    LET row == IF start_row = c.m_rows THEN 0 ELSE start_row
    IN IF row = end_row THEN 0
       ELSE c.m_values[row * c.m_columns + column]
               + compute_sum_before_end(c, column, row + 1, end_row)

\* compute_sum: the cells of the column from start_row to end_row in ring
\* order, both included.
RECURSIVE compute_sum(_, _, _, _)
compute_sum(c, column, start_row, end_row) ==
    LET row == IF start_row = c.m_rows THEN 0 ELSE start_row
        cell == c.m_values[row * c.m_columns + column]
    IN IF row = end_row THEN cell
       ELSE cell + compute_sum(c, column, row + 1, end_row)

\* cb:compute("sum", column, start_ns, end_ns); the range defaults to the
\* start time and the current time of the buffer.
circular_buffer_compute(column, start_ns, end_ns) ==
    /\ cb # NoBuffer /\ cbop.n < MaxOps /\ cbfile.stage = "none"
    /\ column \in 0..(cb.m_columns - 1)
    /\ TimeLE(start_ns, end_ns)
    /\ LET start_row == check_row(cb, start_ns, FALSE).row
           end_row == check_row(cb, end_ns, FALSE).row
       IN cbop' = Op("compute", start_ns, end_ns, column, 0,
                     IF start_row = -1 \/ end_row = -1 THEN Nil
                     ELSE Number(compute_sum(cb, column, start_row, end_row)))
    /\ UNCHANGED cb
    /\ UNCHANGED <<sandbox, ser, cbfile, cbhist, cbout, json, field, pb>>

circular_buffer_compute_default(column) ==
    /\ cb # NoBuffer /\ cbfile.stage = "none"
    /\ circular_buffer_compute(column, get_start_time(cb), cb.m_current_time)

\* DBL_MAX, above every cell, and DBL_MIN, the least positive normal
\* double: above zero and every negative cell, below every positive one.
DBL_MAX == [nil |-> FALSE, val |-> 0, limit |-> "DBL_MAX"]
DBL_MIN == [nil |-> FALSE, val |-> 0, limit |-> "DBL_MIN"]

\* value < result and value > result in compute_min and compute_max.
Less(value, result) ==
    IF result = DBL_MAX THEN TRUE ELSE value < result.val
Greater(value, result) ==
    IF result = DBL_MIN THEN value > 0 ELSE value > result.val

\* compute_min: the least cell of the column from start_row to end_row in
\* ring order, both included, starting from DBL_MAX.
RECURSIVE min_loop(_, _, _, _, _)
min_loop(c, column, start_row, end_row, result) ==
    LET row == IF start_row = c.m_rows THEN 0 ELSE start_row
        value == c.m_values[row * c.m_columns + column]
        next == IF Less(value, result) THEN Number(value) ELSE result
    IN IF row = end_row THEN next
       ELSE min_loop(c, column, row + 1, end_row, next)

compute_min(c, column, start_row, end_row) ==
    min_loop(c, column, start_row, end_row, DBL_MAX)

\* compute_max: the same walk, keeping the greater, starting from DBL_MIN.
RECURSIVE max_loop(_, _, _, _, _)
max_loop(c, column, start_row, end_row, result) ==
    LET row == IF start_row = c.m_rows THEN 0 ELSE start_row
        value == c.m_values[row * c.m_columns + column]
        next == IF Greater(value, result) THEN Number(value) ELSE result
    IN IF row = end_row THEN next
       ELSE max_loop(c, column, row + 1, end_row, next)

compute_max(c, column, start_row, end_row) ==
    max_loop(c, column, start_row, end_row, DBL_MIN)

\* cb:compute("min" or "max", column, start_ns, end_ns)
circular_buffer_compute_extreme(function, column, start_ns, end_ns) ==
    /\ cb # NoBuffer /\ cbop.n < MaxOps /\ cbfile.stage = "none"
    /\ column \in 0..(cb.m_columns - 1)
    /\ TimeLE(start_ns, end_ns)
    /\ LET start_row == check_row(cb, start_ns, FALSE).row
           end_row == check_row(cb, end_ns, FALSE).row
       IN cbop' = Op(function, start_ns, end_ns, column, 0,
                     IF start_row = -1 \/ end_row = -1 THEN Nil
                     ELSE IF function = "min"
                     THEN compute_min(cb, column, start_row, end_row)
                     ELSE compute_max(cb, column, start_row, end_row))
    /\ UNCHANGED cb
    /\ UNCHANGED <<sandbox, ser, cbfile, cbhist, cbout, json, field, pb>>

\* ------------------------------------------------- preserved global data
\* serialize_double: the integer part and eight decimals, the ninth rounded
\* half to odd-or-zero; the digits loop writes the low eight digits of the
\* fraction.  Numbers above INT_MAX take the "%0.9g" branch and are not
\* drawn here.
serialize_double(d) ==
    LET negative == d < 0
        a == IF negative THEN -d ELSE d
        number == a \div NumUnit
        tmp == a % NumUnit
        fraction == tmp \div 10
        diff == tmp % 10
        rounded ==
            IF diff > 5
            THEN IF fraction + 1 >= magnitude
                 THEN [number |-> number + 1, fraction |-> 0]
                 ELSE [number |-> number, fraction |-> fraction + 1]
            ELSE IF diff = 5 /\ (fraction = 0 \/ fraction % 2 = 1)
            THEN [number |-> number, fraction |-> fraction + 1]
            ELSE [number |-> number, fraction |-> fraction]
        written == rounded.number * NumUnit
                      + (rounded.fraction % magnitude) * 10
    IN IF negative THEN -written ELSE written

\* serialize_data: the text of a number, string or boolean, as the value the
\* interpreter reads back from it.
serialize_data(val) ==
    IF val.t = "number" THEN Num(serialize_double(val.v)) ELSE val

\* ignore_value_type: a table that has a metatable (lua_getmetatable is
\* not zero), the table of globals itself, a function and nil are not
\* written (threads, light userdata and userdata other than circular
\* buffers are not drawn here).
ignore_value_type(h, val) ==
    \/ val.t = "table" /\ h.meta[val.v]
    \/ val = Tab(0)
    \/ val.t \in {"function", "nil"}

\* find_table_ref / add_table_ref over the tables and buffers written so far.
find_table_ref(st, val) == \E s \in st.seen : s[1] = val
table_ref(st, val) == (CHOOSE s \in st.seen : s[1] = val)[2]

\* serialize_table and serialize_kvp: walk a table's keys; write a scalar
\* as an assignment, a table or buffer met for the first time as its
\* constructor followed by its contents, and one met again as an alias of
\* the path it was first written under.
RECURSIVE serialize_table(_, _, _, _, _)
RECURSIVE serialize_kvp(_, _, _, _, _)
serialize_kvp(h, parent, key, val, st) ==
    LET path == Append(parent, key)
    IN IF ignore_value_type(h, val) THEN st
       ELSE IF val.t \in {"table", "userdata"}
       THEN IF find_table_ref(st, val)
            THEN [st EXCEPT !.file = Append(@, [k |-> "alias", path |-> path,
                                               to |-> table_ref(st, val),
                                               val |-> NilV])]
            ELSE LET st1 == [file |-> Append(st.file,
                                       [k |-> val.t, path |-> path,
                                        to |-> <<>>, val |-> NilV]),
                             seen |-> st.seen \cup {<<val, path>>}]
                 IN IF val.t = "table"
                    THEN serialize_table(h, val.v, path, KeyOrder, st1)
                    ELSE st1
       ELSE [st EXCEPT !.file = Append(@, [k |-> "assign", path |-> path,
                                          to |-> <<>>,
                                          val |-> serialize_data(val)])]

serialize_table(h, tid, path, keys, st) ==
    IF keys = <<>> THEN st
    ELSE serialize_table(h, tid, path, Tail(keys),
                         serialize_kvp(h, path, Head(keys),
                                       h.tab[tid][Head(keys)], st))

\* The value a path of keys leads to from the table of globals.
RECURSIVE ValueAt(_, _, _)
ValueAt(h, from, path) ==
    IF path = <<>> THEN from
    ELSE IF from.t # "table" THEN NilV
    ELSE ValueAt(h, h.tab[from.v][Head(path)], Tail(path))

\* One statement of the state file, run by the interpreter.
Execute(h, s) ==
    LET parent == ValueAt(h, Tab(0), SubSeq(s.path, 1, Len(s.path) - 1))
        key == s.path[Len(s.path)]
        store(g, v) == [g EXCEPT !.tab[parent.v][key] = v]
    IN CASE s.k = "assign" -> store(h, s.val)
         [] s.k = "table" -> store([h EXCEPT !.nt = @ + 1], Tab(h.nt + 1))
         [] s.k = "userdata" -> store([h EXCEPT !.nb = @ + 1], Cbuf(h.nb + 1))
         [] s.k = "alias" -> store(h, ValueAt(h, Tab(0), s.to))

\* luaL_dofile of the state file.
RECURSIVE luaL_dofile(_, _)
luaL_dofile(h, file) ==
    IF file = <<>> THEN h ELSE luaL_dofile(Execute(h, Head(file)), Tail(file))

\* The script assigns a value to a key of one of its tables: a scalar, a
\* table or buffer it already has, or a new table or buffer.
ScriptSet(tid, key, val) ==
    /\ ser.stage \in {"none", "live"} /\ ser.n < MaxAssign
    /\ tid \in 0..ser.live.nt
    /\ \/ val.t \in {"number", "string", "boolean", "function"}
       \/ val.t = "table" /\ val.v \in 0..Min(ser.live.nt + 1, MaxTables)
       \/ val.t = "userdata" /\ val.v \in 1..Min(ser.live.nb + 1, MaxBuffers)
    /\ ser' = [ser EXCEPT
                  !.stage = "live", !.n = @ + 1,
                  !.live = [@ EXCEPT
                     !.tab[tid][key] = val,
                     !.nt = IF val.t = "table" THEN Max(@, val.v) ELSE @,
                     !.nb = IF val.t = "userdata" THEN Max(@, val.v) ELSE @]]
    /\ UNCHANGED <<cb, cbop, cbfile, cbhist, cbout, json, field, pb>>
    /\ UNCHANGED sandbox

\* setmetatable(t, {}) on a table the script made: load_lua_libraries
\* leaves setmetatable to scripts.
ScriptSetMetatable(tid) ==
    /\ ser.stage = "live" /\ ser.n < MaxAssign
    /\ tid \in 1..ser.live.nt /\ ~ser.live.meta[tid]
    /\ ser' = [ser EXCEPT !.n = @ + 1, !.live.meta[tid] = TRUE]
    /\ UNCHANGED <<cb, cbop, cbfile, cbhist, cbout, json, field, pb>>
    /\ UNCHANGED sandbox

\* preserve_global_data: walk the table of globals into the state file.
preserve_global_data ==
    /\ ser.stage = "live"
    /\ ser' = [ser EXCEPT
                  !.stage = "preserved",
                  !.file = serialize_table(ser.live, 0, <<>>, KeyOrder,
                                           [file |-> <<>>, seen |-> {}]).file]
    /\ UNCHANGED <<cb, cbop, cbfile, cbhist, cbout, json, field, pb>>
    /\ UNCHANGED sandbox

\* restore_global_data: run the state file in a new interpreter.
restore_global_data ==
    /\ ser.stage = "preserved"
    /\ ser' = [ser EXCEPT !.stage = "restored",
                          !.restored = luaL_dofile(FreshGlobals, ser.file)]
    /\ UNCHANGED <<cb, cbop, cbfile, cbhist, cbout, json, field, pb>>
    /\ UNCHANGED sandbox

\* serialize_circular_buffer: the text a buffer is preserved as.  The
\* dimensions, the delta flag, the headers, the current time and row are
\* written exactly; each cell and each pending delta goes through
\* serialize_double, a missing delta of a row as 0.  A bucket's whole
\* number of seconds is written exactly.
serialize_circular_buffer(c) ==
    [rows |-> c.m_rows, columns |-> c.m_columns,
     seconds_per_row |-> c.m_seconds_per_row, delta |-> c.m_delta,
     headers |-> c.m_headers,
     time |-> c.m_current_time, row |-> c.m_current_row,
     values |-> [i \in Cells(c) |-> serialize_double(c.m_values[i])],
     deltas |-> [k \in {d[1] : d \in DOMAIN c.deltas}
                       \X (0..(c.m_columns - 1)) |->
                   IF k \in DOMAIN c.deltas
                   THEN serialize_double(c.deltas[k]) ELSE 0]]

\* circular_buffer_delta_fromstring: each row of the text is a time and one
\* delta per column, given to circular_buffer_add_delta.
RECURSIVE circular_buffer_delta_fromstring(_, _, _)
circular_buffer_delta_fromstring(c, text, keys) ==
    IF keys = {} THEN c
    ELSE LET k == CHOOSE x \in keys : TRUE
         IN circular_buffer_delta_fromstring(
               circular_buffer_add_delta(c, Time(0, k[1]), k[2],
                                         text.deltas[k]),
               text, keys \ {k})

\* circular_buffer_fromstring: the current time, the current row, the
\* cells in their physical order, then the deltas of a delta buffer.
circular_buffer_fromstring(c, text) ==
    LET c1 == [c EXCEPT !.m_current_time = text.time,
                        !.m_current_row = text.row,
                        !.m_values = text.values]
    IN IF c.m_delta
       THEN circular_buffer_delta_fromstring(c1, text, DOMAIN text.deltas)
       ELSE c1

\* cb:fromstring(text) called with the text of a buffer of the same shape
\* that has no pending deltas: a current time the buffer can have reached,
\* the row of that time, and a value for every cell.
ScriptFromstring(time) ==
    /\ cb # NoBuffer /\ cbop.n < MaxOps /\ cbfile.stage = "none"
    /\ time % cb.m_seconds_per_row = 0
    /\ time >= cb.m_seconds_per_row * (cb.m_rows - 1)
    /\ \E values \in [Cells(cb) -> {0} \cup FromValues] :
          cb' = circular_buffer_fromstring(
                   cb, [time |-> Time(0, time),
                        row |-> UMod(RowNumber(cb, Time(0, time)), cb.m_rows),
                        values |-> values, deltas |-> NoDeltas])
    /\ cbop' = Op("fromstring", Time(0, time), Time(0, time), 0, 0, Nil)
    /\ UNCHANGED <<sandbox, ser, cbfile, cbhist, cbout, json, field, pb>>

\* cb:fromstring(text) called with a text the script wrote itself: sscanf
\* stores whatever time and row the text starts with, and the cells that
\* follow (here all zero, one for every cell).
ScriptFromstringText(time, row) ==
    /\ cb # NoBuffer /\ cbop.n < MaxOps /\ cbfile.stage = "none"
    /\ ~cb.m_delta
    /\ cb' = circular_buffer_fromstring(
                 cb, [time |-> Time(0, time), row |-> row,
                      values |-> [i \in Cells(cb) |-> 0],
                      deltas |-> NoDeltas])
    /\ cbop' = Op("fromstring", Time(0, time), Time(0, time), 0, 0, Nil)
    /\ UNCHANGED <<sandbox, ser, cbfile, cbhist, cbout, json, field, pb>>

\* The statements serialize_circular_buffer writes, run in a new
\* interpreter: new, set_header for every column, fromstring.
RestoredBuffer(text) ==
    LET made == NewBuffer(text.rows, text.columns, text.seconds_per_row,
                          text.delta)
        named == [made EXCEPT !.m_headers =
                     [i \in DOMAIN text.headers |->
                         Header(text.headers[i].m_name,
                                text.headers[i].m_unit,
                                text.headers[i].m_aggregation)]]
    IN circular_buffer_fromstring(named, text)

\* Destroy with a state file: the buffer held by a global is preserved.
\* serialize_circular_buffer_delta removes the buffer's delta table.
PreserveBuffer ==
    /\ cb # NoBuffer /\ cbfile.stage = "none"
    /\ cbfile' = [stage |-> "preserved", before |-> cb,
                  text |-> serialize_circular_buffer(cb)]
    /\ cb' = [cb EXCEPT !.m_ref = FALSE, !.deltas = NoDeltas]
    /\ cbop' = [cbop EXCEPT !.op = "preserve"]
    /\ UNCHANGED <<sandbox, ser, cbhist, cbout, json, field, pb>>

\* Init of a new sandbox with the state file: the buffer is made again.
RestoreBuffer ==
    /\ cbfile.stage = "preserved"
    /\ cbfile' = [cbfile EXCEPT !.stage = "restored"]
    /\ cb' = RestoredBuffer(cbfile.text)
    /\ cbop' = [cbop EXCEPT !.op = "restore"]
    /\ UNCHANGED <<sandbox, ser, cbhist, cbout, json, field, pb>>

\* ------------------------------------------------- output of a buffer
\* cb:format(fmt): choose the text output() writes, "cbuf" or "cbufd".
circular_buffer_format(fmt) ==
    /\ cb # NoBuffer /\ cbfile.stage = "none"
    /\ cb' = [cb EXCEPT !.m_format = fmt]
    /\ cbop' = [cbop EXCEPT !.op = "format"]
    /\ UNCHANGED <<sandbox, ser, cbfile, cbhist, cbout, json, field, pb>>

\* The buckets of the rows of the buffer, oldest first.
WindowTimes(c) ==
    {Time(c.m_current_time.wraps,
          c.m_current_time.sec - c.m_seconds_per_row * x) :
        x \in 0..(c.m_rows - 1)}

\* output_circular_buffer_full: every row from the one after the current
\* row, in ring order; the i-th row written is that of the i-th bucket
\* after the start time.
output_circular_buffer_full(c) ==
    [header |-> TRUE,
     times |-> WindowTimes(c),
     rows |-> [k \in WindowTimes(c) \X (0..(c.m_columns - 1)) |->
                 LET x == CDiv(k[1].sec - get_start_time(c).sec,
                               c.m_seconds_per_row)
                     row_idx == (c.m_current_row + 1 + x) % c.m_rows
                 IN serialize_double(c.m_values[row_idx * c.m_columns + k[2]])]]

\* output_circular_buffer_cbufd: one row for every key of the delta table,
\* the key (an int, as lua_rawseti stored it) and one value per column, 0
\* where the row has none; then the delta table is deleted.
output_circular_buffer_cbufd(c) ==
    LET keys == {d[1] : d \in DOMAIN c.deltas}
    IN [header |-> TRUE,
        times |-> {Time(0, t) : t \in keys},
        rows |-> [k \in {Time(0, t) : t \in keys} \X (0..(c.m_columns - 1)) |->
                    IF <<k[1].sec, k[2]>> \in DOMAIN c.deltas
                    THEN serialize_double(c.deltas[<<k[1].sec, k[2]>>])
                    ELSE 0]]

\* output_circular_buffer: nothing at all for a "cbufd" buffer without a
\* delta table; else the header and the rows of the format.
output_circular_buffer(c) ==
    IF c.m_format = "cbufd"
    THEN IF ~c.m_ref
         THEN [cb |-> c,
               text |-> [header |-> FALSE, times |-> {}, rows |-> NoDeltas]]
         ELSE [cb |-> [c EXCEPT !.m_ref = FALSE, !.deltas = NoDeltas],
               text |-> output_circular_buffer_cbufd(c)]
    ELSE [cb |-> c, text |-> output_circular_buffer_full(c)]

\* output(cb), the appends succeeding and the output within its limit.
\* What add and set changed is counted anew after a "cbufd" output.
ScriptOutputBuffer ==
    /\ cb # NoBuffer /\ cbfile.stage = "none"
    /\ cbout.n < MaxEmits
    /\ LET r == output_circular_buffer(cb)
       IN /\ cb' = r.cb
          /\ cbout' = [n |-> cbout.n + 1, header |-> r.text.header,
                       times |-> r.text.times, rows |-> r.text.rows]
    /\ cbhist' = IF cb.m_format = "cbufd" THEN NoDeltas ELSE cbhist
    /\ cbop' = [cbop EXCEPT !.op = "output"]
    /\ UNCHANGED <<sandbox, ser, cbfile, json, field, pb>>

\* ------------------------------------------------- output of a table
\* ignore_value_type_json: nil, userdata and a table that has a metatable
\* are not written (functions and threads are not drawn here).
ignore_value_type_json(j, val) ==
    \/ val.t \in {"nil", "userdata"}
    \/ val.t = "table" /\ j.meta[val.v]

\* A key that always counts as beginning with an underscore.
ignore_every_key(key) == TRUE

\* ignore_key: a string key that begins with an underscore.
ignore_key(key) == key = "_c"

\* serialize_kvp_as_json and serialize_table_as_json: a value or key that
\* is ignored writes nothing; a table not seen before is noted and walked;
\* a table seen before stops the walk with the message; a scalar is
\* written.  The walk goes on while the result is 0.
RECURSIVE serialize_table_as_json(_, _, _, _)
RECURSIVE serialize_kvp_as_json(_, _, _, _)
serialize_kvp_as_json(j, key, val, st) ==
    IF ignore_value_type_json(j, val) THEN st
    ELSE IF ignore_key(key) THEN st
    ELSE IF val.t = "table"
    THEN IF val.v \in st.seen
         THEN [st EXCEPT !.rc = 1,
                         !.err = "table contains an internal or circular reference"]
         ELSE serialize_table_as_json(j, val.v, JsonKeys,
                                      [st EXCEPT !.seen = @ \cup {val.v}])
    ELSE [st EXCEPT !.written = @ + 1]

serialize_table_as_json(j, tid, keys, st) ==
    IF keys = <<>> \/ st.rc # 0 THEN st
    ELSE serialize_table_as_json(
            j, tid, Tail(keys),
            serialize_kvp_as_json(j, Head(keys), j.tab[tid][Head(keys)], st))

\* output(t) for a table: the opening brace is appended (ok: the append
\* succeeds), then the table is walked under the name "table" (it has no
\* _name), then the closing brace is appended.
output_table(j, tid, ok) ==
    IF ~ok THEN [NoResult EXCEPT !.top = tid, !.ok = FALSE, !.rc = 1]
    ELSE serialize_kvp_as_json(j, "table", Tab(tid),
                               [NoResult EXCEPT !.top = tid])

\* The script assigns to a key of one of its tables: a number, nil, or one
\* of its tables.
JsonSet(tid, key, val) ==
    /\ json.tab[tid][key] # val
    /\ json' = [json EXCEPT !.tab[tid][key] = val, !.result = NoResult]
    /\ UNCHANGED <<sandbox, cb, cbop, ser, cbfile, cbhist, cbout, field, pb>>

\* setmetatable(t, {}): load_lua_libraries leaves setmetatable to scripts.
JsonSetMetatable(tid) ==
    /\ ~json.meta[tid]
    /\ json' = [json EXCEPT !.meta[tid] = TRUE, !.result = NoResult]
    /\ UNCHANGED <<sandbox, cb, cbop, ser, cbfile, cbhist, cbout, field, pb>>

\* output(t), the output staying within its limit: a failed walk has put
\* its message into the error slot, and what is raised is the error slot, or
\* "output_limit exceeded" if that is empty.
ScriptOutputTable(tid, ok) ==
    /\ json.result.top = 0
    /\ LET r == output_table(json, tid, ok)
           slot == IF r.err # "" THEN Fixed(r.err, 48) ELSE m_error_message
       IN /\ json' = [json EXCEPT !.result = r]
          /\ m_error_message' = slot
          /\ thrown' = IF r.rc = 0 THEN thrown
                       ELSE IF slot.len = 0
                       THEN Fixed("output_limit exceeded", 21)
                       ELSE slot
    /\ UNCHANGED <<alive, m_lua, m_status, mem, ins, out, m_output, blocks,
                   hookcount, hookleft, pc, entry, pcallDepth, executed,
                   data_file, configured_memory, persisted, call, ncalls,
                   mm, stopping, stopped, plugin_type, globals, creation,
                   lua_top, cb, cbop, ser, cbfile, cbhist, cbout, field, pb>>

\* ------------------------------------------------------ message fields
\* The value read_next_field pushes for a field of type r0: the string or
\* bytes, the number or the boolean behind r3; nil for a null r3 and for a
\* type it does not know.  The numbers of a field (its type, an integer or
\* double value, its count) are written in whole units.
field_value(gr) ==
    IF ~gr.r3 THEN NilV
    ELSE CASE gr.r0 \in {0, 1} -> Str(1)
           [] gr.r0 \in {2, 3} -> Num(1)
           [] gr.r0 = 4 -> Bool(TRUE)
           [] OTHER -> NilV

\* The values read_next_field pushes: five nils for a null name (the end
\* of the fields); else the type, the name, the value, the representation
\* only if it is not null, and the count.
pushed(gr) ==
    IF ~gr.r1 THEN <<NilV, NilV, NilV, NilV, NilV>>
    ELSE <<Num(gr.r0), Str(0), field_value(gr)>>
         \o (IF gr.r5 THEN <<Str(2)>> ELSE <<>>)
         \o <<Num(gr.r7)>>

\* read_next_field(): called with no argument, it asks the host for the
\* next field, pushes its values and returns 5: the interpreter hands the
\* script the five topmost stack slots.  With four values pushed the fifth
\* slot from the top is the one under the function's frame, which holds
\* the function itself.
read_next_field(gr) ==
    /\ field.n < MaxReads
    /\ LET stack == <<Fn("read_next_field")>> \o pushed(gr)
       IN field' = [n |-> field.n + 1, gr |-> gr,
                    returned |-> SubSeq(stack, Len(stack) - 4, Len(stack))]
    /\ UNCHANGED <<sandbox, cb, cbop, ser, cbfile, cbhist, cbout, json, pb>>

\* ------------------------------------------- growth of the output buffer
\* realloc_output: refuse when the bytes needed would end past MAX_OUTPUT;
\* else double the size until needed < size - position.
realloc_output(o, needed, realloc_ok) ==
    IF needed + o.m_pos > MAX_OUTPUT THEN [rc |-> 1, o |-> o]
    ELSE IF ~realloc_ok THEN [rc |-> 1, o |-> o]
    ELSE [rc |-> 0,
          o |-> [o EXCEPT !.m_size = GrownSize(o.m_size * 2, o.m_pos, needed)]]

\* pb_write_string's copy (and pb_write_varint, pb_write_double,
\* pb_write_bool, pb_write_tag with their fixed sizes): grow through
\* realloc_output if the bytes do not fit, then write them.
pb_write(o, needed, realloc_ok) ==
    LET r == IF needed > o.m_size - o.m_pos
             THEN realloc_output(o, needed, realloc_ok)
             ELSE [rc |-> 0, o |-> o]
    IN IF r.rc # 0 THEN r
       ELSE [rc |-> 0, o |-> [r.o EXCEPT !.m_pos = @ + needed]]

\* The end of serialize_double: len digits are written after the buffer
\* was doubled until len < size - position.
write_double(o, len, realloc_ok) ==
    IF len >= o.m_size - o.m_pos
    THEN IF realloc_ok
         THEN [rc |-> 0,
               o |-> [m_size |-> GrownSize(o.m_size * 2, o.m_pos, len),
                      m_pos |-> o.m_pos + len]]
         ELSE [rc |-> 1, o |-> o]
    ELSE [rc |-> 0, o |-> [o EXCEPT !.m_pos = o.m_pos + len]]

\* ------------------------------------------------------- protobuf bytes
\* d->m_data[pos] = byte.
Put(d, pos, byte) ==
    [d EXCEPT !.m_data = IF pos < Len(@) THEN [@ EXCEPT ![pos + 1] = byte]
                         ELSE Append(@, byte)]

\* i == 0, i & 0x7F and i >>= 7 on a long long (the shift of a negative
\* value keeps the sign).
IsZero(i) == ~i.neg /\ \A k \in 1..Len(i.g) : i.g[k] = 0
Low7(i) == IF i.g = <<>> THEN (IF i.neg THEN 127 ELSE 0) ELSE Head(i.g)
Shift7(i) == [i EXCEPT !.g = IF @ = <<>> THEN <<>> ELSE Tail(@)]

\* The buffer grown for needed bytes if they do not fit.
Reserved(d, needed, realloc_ok) ==
    IF needed > d.m_size - d.m_pos
    THEN LET r == realloc_output([m_size |-> d.m_size, m_pos |-> d.m_pos],
                                 needed, realloc_ok)
         IN [rc |-> r.rc, d |-> [d EXCEPT !.m_size = r.o.m_size]]
    ELSE [rc |-> 0, d |-> d]

\* The loop of pb_write_varint: one byte per 7-bit group with the high bit
\* set, until the value is zero; then the high bit of the last byte is
\* cleared.  A negative value shifts down to -1 and stays there: the loop
\* writes 0xFF up to the end of the buffer and goes on beyond it.
RECURSIVE varint_loop(_, _)
varint_loop(d, i) ==
    IF IsZero(i)
    THEN [rc |-> 0, overrun |-> FALSE,
          d |-> Put(d, d.m_pos - 1, d.m_data[d.m_pos] - 128)]
    ELSE IF i = [neg |-> TRUE, g |-> <<>>]
    THEN [rc |-> 0, overrun |-> TRUE,
          d |-> [d EXCEPT !.m_pos = d.m_size,
                          !.m_data = SubSeq(@, 1, d.m_pos)
                                     \o [k \in 1..(d.m_size - d.m_pos) |-> 255]]]
    ELSE varint_loop([Put(d, d.m_pos, Low7(i) + 128) EXCEPT !.m_pos = @ + 1],
                     Shift7(i))

\* pb_write_varint: room for 10 bytes, then a zero byte or the loop.
pb_write_varint(d, i, realloc_ok) ==
    LET r == Reserved(d, 10, realloc_ok)
    IN IF r.rc # 0 THEN [rc |-> 1, overrun |-> FALSE, d |-> d]
       ELSE IF IsZero(i)
       THEN [rc |-> 0, overrun |-> FALSE,
             d |-> [Put(r.d, r.d.m_pos, 0) EXCEPT !.m_pos = @ + 1]]
       ELSE varint_loop(r.d, i)

\* pb_write_tag: one byte, wire_type | (id << 3).
pb_write_tag(d, id, wire_type, realloc_ok) ==
    LET r == Reserved(d, 1, realloc_ok)
    IN IF r.rc # 0 THEN [rc |-> 1, d |-> d]
       ELSE [rc |-> 0,
             d |-> [Put(r.d, r.d.m_pos, wire_type + id * 8)
                       EXCEPT !.m_pos = @ + 1]]

\* The copy of pb_write_string: len bytes at the position.
pb_write_bytes(d, len, realloc_ok) ==
    LET r == Reserved(d, len, realloc_ok)
    IN IF r.rc # 0 THEN [rc |-> 1, d |-> d]
       ELSE [rc |-> 0,
             d |-> [r.d EXCEPT
                      !.m_data = SubSeq(@, 1, r.d.m_pos)
                                 \o [k \in 1..len |-> ByteAt(r.d.m_pos + k)],
                      !.m_pos = @ + len]]

\* The number of 7-bit groups of a length.
RECURSIVE varint_count(_)
varint_count(l) == IF l = 0 THEN 0 ELSE 1 + varint_count(l \div 128)

\* memmove(&m_data[dest], &m_data[src], len)
memmove(data, dest, src, len) ==
    [k \in 1..Max(Len(data), dest + len) |->
        IF k - 1 >= dest /\ k - 1 < dest + len THEN data[k - dest + src]
        ELSE IF k <= Len(data) THEN data[k] ELSE 0]

\* update_field_length writing the length into the one byte kept for it,
\* whatever the length.
update_field_length_in_place(d, len_pos, realloc_ok) ==
    [rc |-> 0, d |-> Put(d, len_pos, (d.m_pos - len_pos - 1) % 256)]

\* update_field_length: the length of the entry goes into the byte kept
\* for it if it is below 128; else the entry is moved up by the extra
\* bytes of the varint, the varint is written at len_pos, and the
\* position is set after the moved entry.
update_field_length(d, len_pos, realloc_ok) ==
    LET len == d.m_pos - len_pos - 1
        cnt == varint_count(len)
        needed == cnt - 1
        r == Reserved(d, needed, realloc_ok)
        end_pos == d.m_pos + needed
        moved == [r.d EXCEPT !.m_data = memmove(@, len_pos + cnt, len_pos + 1,
                                                 len),
                             !.m_pos = len_pos]
        w == pb_write_varint(moved, Groups(len), realloc_ok)
    IN IF len < 128 THEN [rc |-> 0, d |-> Put(d, len_pos, len)]
       ELSE IF r.rc # 0 THEN [rc |-> 1, d |-> d]
       ELSE IF w.rc # 0 THEN [rc |-> 1, d |-> w.d]
       ELSE [rc |-> 0, d |-> [w.d EXCEPT !.m_pos = end_pos]]

\* encode_fields begins an entry after some bytes of the message: the tag
\* of Fields (id 10, wire type 2), then a zero byte where the length goes.
EntryBegin(prefix) ==
    /\ pb.stage = "none"
    /\ LET p == pb_write_bytes(pb.d, prefix, TRUE).d
           t == pb_write_tag(p, 10, 2, TRUE).d
           z == pb_write_varint(t, Groups(0), TRUE).d
       IN pb' = [pb EXCEPT !.d = z, !.stage = "open", !.len_pos = t.m_pos]
    /\ UNCHANGED <<sandbox, cb, cbop, ser, cbfile, cbhist, cbout, json, field>>

\* The name and the value of the entry are written: len more bytes.
EntryWrite(len, realloc_ok) ==
    /\ pb.stage = "open" /\ pb.chunks < MaxChunks
    /\ len = LongChunk => pb.chunks = 0
    /\ LET r == pb_write_bytes(pb.d, len, realloc_ok)
       IN pb' = IF r.rc # 0 THEN [pb EXCEPT !.stage = "failed"]
                ELSE [pb EXCEPT !.d = r.d, !.chunks = @ + 1]
    /\ UNCHANGED <<sandbox, cb, cbop, ser, cbfile, cbhist, cbout, json, field>>

\* encode_fields ends the entry: update_field_length(d, len_pos).
EntryEnd(realloc_ok) ==
    /\ pb.stage = "open"
    /\ LET r == update_field_length(pb.d, pb.len_pos, realloc_ok)
       IN pb' = [pb EXCEPT
                   !.d = r.d,
                   !.entry = SubSeq(pb.d.m_data, pb.len_pos + 2, pb.d.m_pos),
                   !.stage = IF r.rc = 0 THEN "patched" ELSE "failed"]
    /\ UNCHANGED <<sandbox, cb, cbop, ser, cbfile, cbhist, cbout, json, field>>

\* encode_int (Severity, Pid) and the Timestamp of serialize_table_as_pb:
\* the number the script's table holds, cast to long long, goes to
\* pb_write_varint after the tag.
EncodeInt(i) ==
    /\ pb.stage = "none"
    /\ LET t == pb_write_tag(pb.d, 5, 0, TRUE).d
           w == pb_write_varint(t, i, TRUE)
       IN pb' = [pb EXCEPT !.d = w.d, !.stage = "varint", !.value = i,
                           !.from = t.m_pos, !.overrun = w.overrun]
    /\ UNCHANGED <<sandbox, cb, cbop, ser, cbfile, cbhist, cbout, json, field>>

\* One append to the output buffer by the path named: formatted text, a
\* number, protobuf bytes.
AppendOutput(path, len, ok) ==
    /\ m_output.m_pos + len <= 2 * MAX_OUTPUT
    /\ m_output' = (CASE path = "text" -> dynamic_snprintf(m_output, len, ok)
                      [] path = "number" -> write_double(m_output, len, ok)
                      [] path = "bytes" -> pb_write(m_output, len, ok)).o
    /\ UNCHANGED <<alive, m_lua, m_status, m_error_message, mem, ins, out,
                   blocks, hookcount, hookleft, pc, entry, pcallDepth,
                   executed, data_file, configured_memory, persisted, call,
                   ncalls, mm, thrown, stopping, stopped, plugin_type,
                   globals, creation, lua_top, cb, cbop, ser, cbfile, cbhist, cbout, json, field, pb>>

\* inject_message and inject_payload hand the bytes over and set the
\* position back to zero; the buffer keeps its size.
ResetOutput ==
    /\ m_output.m_pos > 0
    /\ m_output' = [m_output EXCEPT !.m_pos = 0]
    /\ UNCHANGED <<alive, m_lua, m_status, m_error_message, mem, ins, out,
                   blocks, hookcount, hookleft, pc, entry, pcallDepth,
                   executed, data_file, configured_memory, persisted, call,
                   ncalls, mm, thrown, stopping, stopped, plugin_type,
                   globals, creation, lua_top, cb, cbop, ser, cbfile, cbhist, cbout, json, field, pb>>

\* ------------------------------------------------------ the specification
\* What the host does to a sandbox it keeps, with the plugin types it may
\* give to sandbox_init.
HostKeeps(types) ==
    \/ InitNoType
    \/ \E path \in BOOLEAN, t \in types : InitNoop(path, t)
    \/ InitNoState
    \/ \E path \in BOOLEAN, t \in types : InitBegin(path, t)
    \/ InitReturn
    \/ RestoreReturn
    \/ \E fn \in Dispatch : DispatchRejected(fn)
    \/ \E fn \in Dispatch : DispatchNotFound(fn)
    \/ \E fn \in Dispatch : DispatchBegin(fn)
    \/ \E numeric \in BOOLEAN, status \in Statuses,
          r2 \in {"nil", "string", "other"} :
          PMReturn(numeric, status, r2)
    \/ TEReturn

\* What the host does, the end of the sandbox included.
HostCalls(types) ==
    \/ HostKeeps(types)
    \/ \E path \in BOOLEAN, preserved \in BOOLEAN : Destroy(path, preserved)

HostNext == HostCalls({"filter"})

\* Scripts that compute, protect calls and raise errors.
Next ==
    \/ HostNext
    \/ sandbox_stop
    \/ ScriptInstr
    \/ ScriptPcall
    \/ ScriptPcallDone
    \/ \E m \in ScriptErrs : ScriptError(m)

Spec == Init /\ [][Next]_vars

\* Scripts that build and inject payloads, inside and outside protected
\* calls.
NextOut ==
    \/ HostCalls(PluginTypes)
    \/ ScriptPcall
    \/ ScriptPcallDone
    \/ \E len \in OutLens, ok \in BOOLEAN, serialized \in BOOLEAN :
          ScriptOutput(len, ok, serialized)
    \/ \E result \in InjectResults : ScriptInject("inject_message()", result)

SpecOut == Init /\ [][NextOut]_vars

\* Scripts of the plugin types that are not given add_to_payload, calling
\* the output function through whatever global holds it.
NextKeep ==
    \/ HostKeeps({"input", "output"})
    \/ ScriptKeep
    \/ \E len \in OutLens, ok \in BOOLEAN, serialized \in BOOLEAN :
          ScriptCallOutput(len, ok, serialized)

SpecKeep == Init /\ [][NextKeep]_vars

\* Scripts (and state files) that make the interpreter allocate and free.
NextMem ==
    \/ HostNext
    \/ ScriptPcall
    \/ ScriptPcallDone
    \/ \E b \in Blocks, n \in AllocSizes \cup {HugeAlloc}, ok \in BOOLEAN :
          ScriptAlloc(b, n, ok)
    \/ \E b \in Blocks : ScriptFree(b)

SpecMem == Init /\ [][NextMem]_vars

\* Creation, for every combination of limits at and around the ceilings.
NextCreate == lua_sandbox_create

SpecCreate == InitCreate /\ [][NextCreate]_vars

\* The circular buffer: a script makes one buffer and calls its methods.
NextCB ==
    \/ \E r \in CBRows, c \in CBColumns, s \in CBSeconds, d \in BOOLEAN :
          circular_buffer_new(r, c, s, d)
    \/ \E ns \in CBTimes, c \in 0..1, v \in CBValues :
          circular_buffer_add(ns, c, v)
    \/ \E ns \in CBTimes, c \in 0..1, v \in CBValues :
          circular_buffer_set(ns, c, v)
    \/ \E ns \in CBTimes, c \in 0..1 : circular_buffer_get(ns, c)
    \/ \E w \in CBWraps, s \in (-1)..MaxSec, e \in (-1)..MaxSec, c \in 0..1 :
          circular_buffer_compute(c, Time(w, s), Time(w, e))
    \/ \E c \in 0..1 : circular_buffer_compute_default(c)
    \/ \E c \in 0..1, n \in HeaderNames, u \in HeaderUnits,
          a \in Aggregations : circular_buffer_set_header(c, n, u, a)
    \/ PreserveBuffer
    \/ RestoreBuffer

SpecCB == Init /\ [][NextCB]_vars

\* Calls with a bad argument: a buffer is made, filled, and add and set are
\* called with a column out of range or a value that is not a number.
NextArg ==
    \/ \E r \in CBRows, c \in CBColumns, s \in CBSeconds, d \in BOOLEAN :
          circular_buffer_new(r, c, s, d)
    \/ \E ns \in CBTimes, c \in 0..1, v \in CBValues :
          circular_buffer_set(ns, c, v)
    \/ \E fn \in {"add", "set"}, ns \in CBTimes, arg \in {3, 4} :
          circular_buffer_argument_error(fn, ns, arg)

SpecArg == Init /\ [][NextArg]_vars

\* Aggregation: a buffer is made, filled from a text, and summed.
NextSum ==
    \/ \E r \in CBRows, c \in CBColumns, s \in CBSeconds :
          circular_buffer_new(r, c, s, FALSE)
    \/ \E t \in 0..MaxSec : ScriptFromstring(t)
    \/ \E s \in (-1)..MaxSec, e \in (-1)..MaxSec, c \in 0..1 :
          circular_buffer_compute(c, Time(0, s), Time(0, e))
    \/ \E c \in 0..1 : circular_buffer_compute_default(c)

SpecSum == Init /\ [][NextSum]_vars

\* The ring: a buffer is made, written, read, renamed and filled from
\* texts the script chooses.
NextRing ==
    \/ \E r \in CBRows, c \in CBColumns, s \in CBSeconds :
          circular_buffer_new(r, c, s, FALSE)
    \/ \E s \in 0..MaxSec, c \in 0..1, v \in FromValues :
          circular_buffer_add(Time(0, s), c, v)
    \/ \E s \in 0..MaxSec, c \in 0..1, v \in FromValues :
          circular_buffer_set(Time(0, s), c, v)
    \/ \E s \in 0..MaxSec, c \in 0..1 : circular_buffer_get(Time(0, s), c)
    \/ \E c \in 0..1 : circular_buffer_compute_default(c)
    \/ \E c \in 0..1, n \in HeaderNames, u \in HeaderUnits,
          a \in Aggregations : circular_buffer_set_header(c, n, u, a)
    \/ \E fmt \in {"cbuf", "cbufd"} : circular_buffer_format(fmt)
    \/ \E t \in 0..MaxSec, row \in TextRows : ScriptFromstringText(t, row)

SpecRing == Init /\ [][NextRing]_vars

\* Extremes: a buffer is made, its cells set, and the least and the
\* greatest cell of a range asked for.
NextExtreme ==
    \/ \E r \in CBRows, c \in CBColumns, s \in CBSeconds :
          circular_buffer_new(r, c, s, FALSE)
    \/ \E s \in 0..MaxSec, c \in 0..1, v \in DeltaValues :
          circular_buffer_set(Time(0, s), c, v)
    \/ \E f \in {"min", "max"}, s \in 0..MaxSec, e \in 0..MaxSec,
          c \in 0..1 :
          circular_buffer_compute_extreme(f, c, Time(0, s), Time(0, e))

SpecExtreme == Init /\ [][NextExtreme]_vars

\* Tables: a script builds tables that hold each other and writes one.
NextJson ==
    \/ \E tid \in JsonTables, key \in {"a", "b", "_c"},
          val \in JsonValues \cup {NilV} \cup {Tab(i) : i \in JsonTables} :
          JsonSet(tid, key, val)
    \/ \E tid \in JsonTables : JsonSetMetatable(tid)
    \/ \E tid \in JsonTables, ok \in BOOLEAN : ScriptOutputTable(tid, ok)

SpecJson == Init /\ [][NextJson]_vars

\* Appends: texts, numbers and protobuf bytes of several lengths are
\* appended to the output buffer, which is handed over now and then.
NextGrow ==
    \/ \E len \in TextLens, ok \in BOOLEAN : AppendOutput("text", len, ok)
    \/ \E len \in NumberLens, ok \in BOOLEAN : AppendOutput("number", len, ok)
    \/ \E len \in ByteLens, ok \in BOOLEAN : AppendOutput("bytes", len, ok)
    \/ ResetOutput

SpecGrow == Init /\ [][NextGrow]_vars

\* Deltas: a script makes a buffer, adds to and sets its cells, chooses a
\* format and writes the buffer.
NextDelta ==
    \/ \E r \in CBRows, c \in CBColumns, s \in CBSeconds, d \in BOOLEAN :
          circular_buffer_new(r, c, s, d)
    \/ \E ns \in DeltaTimes, c \in 0..1, v \in DeltaValues :
          circular_buffer_add(ns, c, v)
    \/ \E ns \in DeltaTimes, c \in 0..1, v \in DeltaValues :
          circular_buffer_set(ns, c, v)
    \/ \E fmt \in {"cbuf", "cbufd"} : circular_buffer_format(fmt)
    \/ ScriptOutputBuffer

SpecDelta == Init /\ [][NextDelta]_vars

\* Scripts that hand payloads to a host that answers with every result
\* code, inside and outside protected calls.
NextInject ==
    \/ HostCalls({"filter"})
    \/ ScriptPcall
    \/ ScriptPcallDone
    \/ \E len \in OutLens : ScriptOutput(len, TRUE, TRUE)
    \/ \E fn \in InjectFunctions, result \in HostResults :
          ScriptInject(fn, result)

SpecInject == Init /\ [][NextInject]_vars

\* A message table encoded as protobuf: one entry of its Fields, written
\* in pieces and closed, or one of its integer members.
NextPb ==
    \/ \E prefix \in PrefixLens : EntryBegin(prefix)
    \/ \E len \in ChunkLens \cup {LongChunk}, realloc_ok \in BOOLEAN :
          EntryWrite(len, realloc_ok)
    \/ \E realloc_ok \in BOOLEAN : EntryEnd(realloc_ok)
    \/ \E i \in VarintValues : EncodeInt(i)

SpecPb == Init /\ [][NextPb]_vars

\* A script that reads the fields of a message, whatever the host returns
\* for each.
NextField == \E gr \in GoFields : read_next_field(gr)

SpecField == Init /\ [][NextField]_vars

\* The end of a sandbox: the host runs it, a script may fail, and destroy
\* preserves the globals with every outcome preserve_global_data has.
NextDestroy ==
    \/ HostKeeps({"filter"})
    \/ ScriptInstr
    \/ \E m \in ScriptErrs : ScriptError(m)
    \/ \E path \in BOOLEAN, outcome \in PreserveOutcomes,
          malloc_ok \in BOOLEAN :
          lua_sandbox_destroy(path, outcome, malloc_ok)

SpecDestroy == Init /\ [][NextDestroy]_vars

\* Preservation: a script fills its globals, destroy writes them to the
\* state file and init of a new sandbox reads the file back.
NextSer ==
    \/ \E tid \in 0..MaxTables, key \in SerKeys,
          val \in SerValues \cup {Tab(i) : i \in 0..MaxTables}
                           \cup {Cbuf(i) : i \in 1..MaxBuffers} :
          ScriptSet(tid, key, val)
    \/ preserve_global_data
    \/ restore_global_data

SpecSer == Init /\ [][NextSer]_vars

\* Preservation of globals that hold functions and tables with
\* metatables besides scalars and plain tables.
NextMeta ==
    \/ \E tid \in 0..MaxTables, key \in SerKeys,
          val \in {Num(NumUnit), Fn("f")} \cup {Tab(i) : i \in 0..MaxTables} :
          ScriptSet(tid, key, val)
    \/ \E tid \in 1..MaxTables : ScriptSetMetatable(tid)
    \/ preserve_global_data

SpecMeta == Init /\ [][NextMeta]_vars

\* ----------------------------------------------------------------- claims
Returned == pc = "host" /\ call.op \in {"init"} \cup Dispatch

\* C1: once the status is Terminated, no host call makes it Running again.
C1_TerminatedIsFinal ==
    [][m_status = "Terminated" => m_status' # "Running"]_vars

C3_TerminatedRejects ==
    [][(m_status = "Terminated" /\ ncalls' # ncalls
            /\ call'.op \in Dispatch) =>
       (/\ pc' = "host" /\ call'.ret # 0
        /\ executed' = executed
        /\ UNCHANGED <<m_status, m_error_message, mem, ins, out>>)]_vars

C3_Rejected ==
    /\ pc = "host" /\ call.op \in Dispatch /\ call.result = "rejected"
    /\ m_status = "Terminated" /\ m_error_message.len > 0

\* C4: a process_message or timer_event whose script raised an uncaught
\* error ending in "aborted" returns nonzero with the status still Running
\* and the interpreter alive, so that a later destroy with a state path
\* still preserves the globals.
C4_AbortedKeepsRunning ==
    (pc = "host" /\ call.op \in Dispatch /\ call.raised
        /\ call.err.aborted) =>
    (call.ret # 0 /\ m_status = "Running" /\ m_lua)

\* C5: after a process_message that failed with an error ending in
\* "aborted", the error slot holds a message ending in "aborted".
C5_AbortedLastError ==
    (pc = "host" /\ call.op = "process_message" /\ call.raised
        /\ call.err.aborted) =>
    m_error_message.aborted

\* C6: a process_message or timer_event that failed with an uncaught error
\* not ending in "aborted", or whose function was not found, returns
\* nonzero with the status Terminated and the error slot holding the entry
\* point's name followed by the interpreter's message.
C6_ErrorTerminates ==
    (pc = "host" /\ call.op \in Dispatch
        /\ ((call.raised /\ ~call.err.aborted)
            \/ call.result = "not_found")) =>
    /\ call.ret # 0
    /\ m_status = "Terminated"
    /\ m_error_message.pfx = call.op \o "() "
    /\ call.raised => m_error_message.text = call.err.text

\* C7: a process_message or timer_event never executes more instructions
\* than the instruction limit, whatever the script protects with pcall;
\* reaching the limit ends the call with the status Terminated and the
\* error "instruction_limit exceeded".
C7_InstructionLimit ==
    /\ (call.op \in Dispatch /\ pc = "script") => executed <= ins.lim
    /\ (call.op \in Dispatch /\ pc = "host" /\ call.raised
            /\ call.err.text = "instruction_limit exceeded") =>
          /\ m_status = "Terminated"
          /\ m_error_message.text = "instruction_limit exceeded"

\* C8: the allocator returns a block only if current + nsize - osize is
\* within the limit, and then current is that value and maximum is at
\* least it; a refused request leaves current and maximum unchanged; a
\* free lowers current by osize; so current is within the limit after
\* every successful allocation.
C8_AllocatorWithinLimit ==
    mm.made =>
        IF mm.nsize = 0
        THEN mm.cur1 = mm.cur0 - mm.osize /\ mm.max1 = mm.max0
        ELSE IF mm.ok
        THEN /\ mm.cur0 + mm.nsize - mm.osize <= mm.lim
             /\ mm.cur1 = mm.cur0 + mm.nsize - mm.osize
             /\ mm.max1 = Max(mm.max0, mm.cur1)
             /\ mm.cur1 <= mm.lim
        ELSE mm.cur1 = mm.cur0 /\ mm.max1 = mm.max0

\* C9: whenever init, process_message or timer_event has returned to the
\* host, the memory in use is within the memory limit.
C9_MemoryWithinLimit ==
    Returned => mem.cur <= mem.lim

\* C10: whenever init, process_message or timer_event has returned to the
\* host, the output position is within the output limit.
C10_OutputWithinLimit ==
    Returned => m_output.m_pos <= out.lim

\* C11: every output() call that leaves the buffer position above the
\* output limit raises "output_limit exceeded", whatever happened in
\* earlier calls on the sandbox.
C11_OutputLimitMessage ==
    [][\A len \in OutLens, ok \in BOOLEAN :
          (ScriptOutput(len, ok, TRUE) /\ m_output'.m_pos > out.lim) =>
          thrown'.text = "output_limit exceeded"]_vars

\* C12: once stop has been called while the script runs, the script
\* executes no further instruction in that run: the next instruction
\* raises "shutting down", and so does every one after it.
C12_StopIsFinal ==
    [][(stopped /\ pc = "script") => executed' <= executed]_vars

\* C13: after a successful sandbox_init the host functions visible to the
\* script are exactly those of the plugin type given: input has
\* read_config, decode_message, inject_message; output has read_config,
\* decode_message, read_message, read_next_field; filter, decoder, encoder
\* and the empty type have those four plus inject_payload, inject_message
\* and add_to_payload; write_message only for decoder and encoder; and no
\* type has a global named output.
C13_PluginFunctions ==
    LET four == {"read_config", "decode_message", "read_message",
                 "read_next_field"}
        payload == {"inject_payload", "inject_message", "add_to_payload"}
        expected ==
            [t \in PluginTypes \ {"other"} |->
                CASE t = "input" ->
                       {"read_config", "decode_message", "inject_message"}
                  [] t = "output" -> four
                  [] t \in {"", "filter"} -> four \cup payload
                  [] t \in {"decoder", "encoder"} ->
                       four \cup payload \cup {"write_message"}]
    IN (pc = "host" /\ call.op = "init" /\ call.ret = 0) =>
          /\ "output" \notin globals
          /\ plugin_type # "other" => globals = expected[plugin_type]

\* C14: create returns null if and only if a requested limit exceeds its
\* ceiling (a limit equal to the ceiling is accepted); otherwise it returns
\* a sandbox with status Unknown, an empty error slot, the limits given,
\* and current = maximum = 0 for every metric.
C14_CreateCeilings ==
    LET r == creation.req
        exceeds == \/ r.mem > MAX_MEMORY
                   \/ r.inst > MAX_INSTRUCTION
                   \/ r.out > MAX_OUTPUT
    IN creation.result # "none" =>
          /\ creation.result = "null" <=> exceeds
          /\ ~exceeds =>
                /\ creation.result = "sandbox" /\ alive
                /\ m_status = "Unknown" /\ m_error_message = NoMsg
                /\ mem = [lim |-> r.mem, cur |-> 0, max |-> 0]
                /\ ins = [lim |-> r.inst, cur |-> 0, max |-> 0]
                /\ out = [lim |-> r.out, cur |-> 0, max |-> 0]

\* C15: process_message returns the script's status exactly when the
\* script's function returned (number, nil) or (number, string): with nil
\* the error slot is cleared, with a string it holds the string, and the
\* sandbox stays Running; with any other pair of values the sandbox is
\* Terminated and the call returns nonzero.
C15_ProcessMessageReturn ==
    [][\A numeric \in BOOLEAN, status \in Statuses,
          r2 \in {"nil", "string", "other"} :
          PMReturn(numeric, status, r2) =>
             IF numeric /\ r2 \in {"nil", "string"}
             THEN /\ call'.ret = status
                  /\ m_status' = "Running"
                  /\ r2 = "nil" => m_error_message' = NoMsg
                  /\ r2 = "string" =>
                        m_error_message'.text = "script status message"
             ELSE /\ call'.ret # 0
                  /\ m_status' = "Terminated"]_vars

\* C16: on a buffer of R rows and S seconds per row, set(ns, c, v) followed
\* by get(ns, c) returns v exactly when the bucket of ns is less than S * R
\* seconds from the buffer's current time after the set, and nil otherwise.
C16_SetThenGet ==
    [][\A ns \in CBTimes, c \in 0..1 :
          (/\ cbop.op = "set" /\ cbop.ns = ns /\ cbop.column = c
           /\ circular_buffer_get(ns, c)) =>
             cbop'.ret = IF Within(Bucket(cb, ns), cb.m_current_time,
                                   cb.m_seconds_per_row * cb.m_rows)
                         THEN Number(cbop.value) ELSE Nil]_vars

\* The window of the buffer: the buckets from the start time to the current
\* time.
InWindow(c, b) ==
    /\ b.wraps = c.m_current_time.wraps
    /\ get_start_time(c).sec <= b.sec
    /\ b.sec <= c.m_current_time.sec

\* C17: get returns nil when the bucket of its timestamp lies outside the
\* window [T - S*(R-1), T], and compute returns nil when the bucket of
\* either end of its range does: no cell of another bucket is returned or
\* aggregated.
C17_OutsideWindowIsNil ==
    /\ (cbop.op = "get" /\ ~InWindow(cb, Bucket(cb, cbop.ns))) =>
          cbop.ret = Nil
    /\ (/\ cbop.op = "compute"
        /\ \/ ~InWindow(cb, Bucket(cb, cbop.ns))
           \/ ~InWindow(cb, Bucket(cb, cbop.end))) =>
          cbop.ret = Nil

\* The physical row that holds a bucket of the window: the current row holds
\* the current time, and each earlier bucket the row before, wrapping.
RowOfBucket(c, b) ==
    (c.m_current_row + c.m_rows
       - ((c.m_current_time.sec - b.sec) \div c.m_seconds_per_row)) % c.m_rows

\* The sum of the cells of a column over a set of rows.
RECURSIVE ColumnSum(_, _, _)
ColumnSum(c, column, rows) ==
    IF rows = {} THEN 0
    ELSE LET row == CHOOSE x \in rows : TRUE
         IN c.m_values[row * c.m_columns + column]
               + ColumnSum(c, column, rows \ {row})

SerPaths == UNION {[1..n -> SerKeys] : n \in 1..(MaxTables + 1)}
StructurallyEqual(g, h) ==
    /\ \A p \in SerPaths :
          LET a == ValueAt(g, Tab(0), p)
              b == ValueAt(h, Tab(0), p)
          IN /\ a.t = b.t
             /\ a.t \in {"number", "string", "boolean"} => a.v = b.v
    /\ \A p, q \in SerPaths :
          LET a == ValueAt(g, Tab(0), p)
              b == ValueAt(g, Tab(0), q)
          IN (a.t \in {"table", "userdata"} /\ a.t = b.t) =>
                (a = b <=> ValueAt(h, Tab(0), p) = ValueAt(h, Tab(0), q))

\* C19: the globals restored from the state file are structurally equal to
\* the globals that were preserved, shared and cyclic tables included.
C19_RoundTrip ==
    ser.stage = "restored" => StructurallyEqual(ser.live, ser.restored)

\* C20: a circular buffer restored from the state file has the rows,
\* columns, seconds per row, delta flag and headers of the buffer that was
\* preserved, the same cells in the same physical positions, the same
\* current time and current row, and the same pending deltas.
C20_BufferRoundTrip ==
    cbfile.stage = "restored" => cb = cbfile.before

\* C21: writing a buffer in the "cbufd" format writes a row for every bucket
\* whose cells add or set changed since the deltas were last written, and
\* for no other bucket, and leaves no pending delta behind; written again
\* with no add or set in between, it has no rows.
C21_DeltaEmission ==
    [][(ScriptOutputBuffer /\ cb.m_format = "cbufd") =>
          /\ cbout'.times \subseteq {k[1] : k \in DOMAIN cbhist}
          /\ {k[1] : k \in {x \in DOMAIN cbhist : cbhist[x] # 0}}
                \subseteq cbout'.times
          /\ cb'.deltas = NoDeltas /\ ~cb'.m_ref
          /\ (cbop.op = "output" => cbout'.times = {})]_vars

\* The pending delta the side table holds for a bucket and column (a key
\* of the table is a time in seconds), and the net change add and set made
\* to that cell since the deltas were last written.
Stored(c, bucket, column) ==
    IF bucket.wraps = 0 /\ <<bucket.sec, column>> \in DOMAIN c.deltas
    THEN c.deltas[<<bucket.sec, column>>] ELSE 0
NetChange(h, bucket, column) ==
    IF <<bucket, column>> \in DOMAIN h THEN h[<<bucket, column>>] ELSE 0

\* C30: in delta mode, after every add and set the pending delta of each
\* bucket and column is the net change of that cell since the deltas were
\* last written, and a call that returns nil leaves the deltas as they were.
C30_PendingDelta ==
    [][(cb'.m_delta /\ cbop'.op \in {"add", "set"} /\ cbop'.n > cbop.n) =>
          /\ \A b \in CBTimes, c \in 0..(cb'.m_columns - 1) :
                Stored(cb', b, c) = NetChange(cbhist', b, c)
          /\ cbop'.ret = Nil => cb'.deltas = cb.deltas]_vars

\* The row number of a bucket modulo the number of rows, the rows the
\* buffer has to pass to reach a bucket ahead of its current time (all of
\* them when the bucket is further ahead than the window is long), and the
\* n rows that follow the current row in ring order.
RowModulo(c, b) ==
    (CDiv(b.sec, c.m_seconds_per_row) + b.wraps * Pow32Mod(c.m_rows))
        % c.m_rows
RowsAhead(c, b) ==
    IF b.wraps # c.m_current_time.wraps THEN c.m_rows
    ELSE Min(CDiv(b.sec - c.m_current_time.sec, c.m_seconds_per_row),
             c.m_rows)
Following(c, n) == {(c.m_current_row + x) % c.m_rows : x \in 1..n}

\* C28: add and set with a bucket b after the current time T zero exactly
\* the min((b - T)/S, R) rows that follow the current row, keep every other
\* row, and leave T = b and r = (b/S) mod R; with b at or before T they zero
\* no row and leave T and r as they were.  (The cell the call is for takes
\* the call's value.)
C28_Advance ==
    [][\A ns \in CBTimes, col \in 0..1, v \in CBValues :
          (circular_buffer_add(ns, col, v) \/ circular_buffer_set(ns, col, v))
          => LET b == Bucket(cb, ns)
                 cell == RowModulo(cb, b) * cb.m_columns + col
                 swept == Following(cb, RowsAhead(cb, b))
             IN IF TimeLE(b, cb.m_current_time)
                THEN /\ cb'.m_current_time = cb.m_current_time
                     /\ cb'.m_current_row = cb.m_current_row
                     /\ \A i \in Cells(cb) \ {cell} :
                           cb'.m_values[i] = cb.m_values[i]
                ELSE /\ cb'.m_current_time = b
                     /\ cb'.m_current_row = RowModulo(cb, b)
                     /\ \A i \in Cells(cb) \ {cell} :
                           cb'.m_values[i] =
                              IF (i \div cb.m_columns) \in swept THEN 0
                              ELSE cb.m_values[i]]_vars

\* The rows of the buckets from bucket(start) to bucket(end), and the least
\* and the greatest of the cells of a column over a set of rows.
CoveredRows(c, start_ns, end_ns) ==
    {RowOfBucket(c, Time(start_ns.wraps, s)) :
        s \in {x \in Bucket(c, start_ns).sec..Bucket(c, end_ns).sec :
                  x % c.m_seconds_per_row = 0}}
Least(c, column, rows) ==
    CHOOSE v \in {c.m_values[r * c.m_columns + column] : r \in rows} :
       \A r \in rows : v <= c.m_values[r * c.m_columns + column]
Greatest(c, column, rows) ==
    CHOOSE v \in {c.m_values[r * c.m_columns + column] : r \in rows} :
       \A r \in rows : v >= c.m_values[r * c.m_columns + column]

\* C29: compute("min") returns the least and compute("max") the greatest
\* cell of the column over the buckets of the range, whatever the cells
\* hold: positive values, zeros only, negative values only.
C29_MinMax ==
    (/\ cbop.op \in {"min", "max"}
     /\ InWindow(cb, Bucket(cb, cbop.ns))
     /\ InWindow(cb, Bucket(cb, cbop.end))) =>
       LET rows == CoveredRows(cb, cbop.ns, cbop.end)
       IN cbop.ret = Number(IF cbop.op = "min"
                            THEN Least(cb, cbop.column, rows)
                            ELSE Greatest(cb, cbop.column, rows))

\* C27: after every append to the output buffer, by whichever path, the
\* position is at most the size of the buffer and the size is at most
\* MAX_OUTPUT.
C27_OutputCapacity ==
    /\ m_output.m_pos <= m_output.m_size
    /\ m_output.m_size <= MAX_OUTPUT

\* One table holds another under some key; with written, under a key that
\* does not begin with an underscore, the table held having no metatable.
BeginsWithUnderscore(key) == key \in {"_c"}
Holds(j, t, u, written) ==
    \E k \in {"a", "b", "_c"} :
       /\ j.tab[t][k] = Tab(u)
       /\ written => (~BeginsWithUnderscore(k) /\ ~j.meta[u])

\* The tables reached from a set of tables, and a table that contains
\* itself, directly or through nested tables.
RECURSIVE Reached(_, _, _)
Reached(j, set, written) ==
    LET next == set \cup {u \in JsonTables :
                             \E t \in set : Holds(j, t, u, written)}
    IN IF next = set THEN set ELSE Reached(j, next, written)
ContainsItself(j, t, written) ==
    t \in Reached(j, {u \in JsonTables : Holds(j, t, u, written)}, written)

CircularReference ==
    /\ json.result.rc # 0
    /\ json.result.err = "table contains an internal or circular reference"
    /\ thrown.text = "table contains an internal or circular reference"

C23_PersistFailure ==
    (call.op = "destroy" /\ persisted \in {"failed", "partial"}) =>
        /\ ~call.raised
        /\ call.result = "error"
        /\ persisted = "failed"
        /\ ~m_lua /\ m_status = "Terminated"

\* What luaL_error is given for each nonzero result the host documents.
Causes ==
    <<" protobuf unmarshal failed", " exceeded InjectMessage count",
      " exceeded MaxMsgLoops",
      " creates a circular reference (matches this plugin's message_matcher)",
      " aborted">>

\* The payload was handed to the host: the buffer held bytes and was reset.
Handed == m_output.m_pos > 0 /\ m_output'.m_pos = 0

\* C24: when the host answers an injected payload with a code from 1 to 5,
\* inject_message or inject_payload raises an error whose text is the
\* function's name followed by the cause of that code; the text of code 5
\* ends in "aborted", and when it is raised outside any pcall of the script
\* during process_message or timer_event the call returns nonzero to the
\* host with the status Running and the interpreter alive.
C24_InjectError ==
    [][\A fn \in InjectFunctions, result \in 1..5 :
          (ScriptInject(fn, result) /\ Handed) =>
             /\ thrown'.text = fn \o Causes[result]
             /\ (result = 5 => thrown'.aborted)
             /\ (result = 5 /\ pcallDepth = 0 /\ entry \in Dispatch) =>
                   /\ pc' = "host" /\ call'.op = entry
                   /\ call'.ret # 0
                   /\ m_status' = "Running" /\ m_lua']_vars

\* A timer_event ended by inject_payload's "aborted" error, back in the
\* host with the sandbox Running.
C24_AbortedInject ==
    /\ pc = "host" /\ call.op = "timer_event" /\ call.raised
    /\ call.err.text = "inject_payload() aborted"
    /\ call.ret # 0 /\ m_status = "Running"

\* The host's protected call of process_message or timer_event has ended:
\* the script's function returned or raised an error nothing caught.
Dispatched ==
    /\ pc = "host" /\ call.op \in Dispatch
    /\ call.raised \/ call.result \in {"ok", "bad_status", "bad_message"}

\* C26: after every process_message or timer_event that ran the script,
\* one ended by an error or by the instruction limit included, the current
\* instruction count is the number of instructions the call executed and
\* the maximum is at least that; after a call the instruction limit ended
\* the maximum is at least the limit.
C26_InstructionStats ==
    Dispatched =>
        /\ ins.cur = executed
        /\ ins.max >= executed
        /\ (call.raised /\ call.err = Fixed("instruction_limit exceeded", 26)) =>
              ins.max >= ins.lim

\* C25: whatever the host returned for the field, read_next_field hands
\* the script five values in the order type, name, value, representation,
\* count (the representation nil when the field has none); at the end of
\* the fields all five are nil.
C25_FiveValues ==
    field.n > 0 =>
        /\ Len(field.returned) = 5
        /\ IF ~field.gr.r1
           THEN \A i \in 1..5 : field.returned[i] = NilV
           ELSE /\ field.returned[1] = Num(field.gr.r0)
                /\ field.returned[2].t = "string"
                /\ field.returned[3] = field_value(field.gr)
                /\ field.returned[4].t = (IF field.gr.r5 THEN "string"
                                          ELSE "nil")
                /\ field.returned[5] = Num(field.gr.r7)

\* The state file has a statement for the global named key.
Written(key) == \E i \in 1..Len(ser.file) : ser.file[i].path = <<key>>

\* C31: a global that preserve_global_data leaves out of the state file is
\* the table of globals itself or a function; every other table the script
\* made and holds in a global is in the file, whether or not the script
\* gave it a metatable.
C31_SkippedOnly ==
    ser.stage = "preserved" =>
        \A key \in SerKeys :
            LET val == ser.live.tab[0][key]
            IN (val.t # "nil" /\ ~Written(key)) =>
                  (val = Tab(0) \/ val.t = "function")

\* The value of the varint that starts at position pos of the bytes, and
\* the number of bytes it takes.
RECURSIVE VarintAt(_, _)
VarintAt(data, pos) ==
    IF pos + 1 > Len(data) THEN [value |-> 0, bytes |-> 0]
    ELSE IF data[pos + 1] < 128 THEN [value |-> data[pos + 1], bytes |-> 1]
    ELSE LET rest == VarintAt(data, pos + 1)
         IN [value |-> (data[pos + 1] - 128) + 128 * rest.value,
             bytes |-> 1 + rest.bytes]

\* C32: once update_field_length has returned 0 for an entry, the bytes at
\* the length position are the varint of the number of entry bytes, the
\* entry bytes follow it unchanged, and the buffer position is just after
\* them, inside the buffer.
C32_BackPatchedLength ==
    pb.stage = "patched" =>
        LET prefix == VarintAt(pb.d.m_data, pb.len_pos)
            first == pb.len_pos + prefix.bytes
        IN /\ prefix.bytes >= 1
           /\ prefix.value = Len(pb.entry)
           /\ prefix.bytes = (IF Len(pb.entry) < 128 THEN 1
                              ELSE IF Len(pb.entry) < 16384 THEN 2 ELSE 3)
           /\ SubSeq(pb.d.m_data, first + 1, first + Len(pb.entry)) = pb.entry
           /\ pb.d.m_pos = first + Len(pb.entry)
           /\ pb.d.m_pos <= pb.d.m_size

\* An entry of 16384 bytes closed: a length of three bytes, the entry two
\* bytes further up than it was written.
C32_LongEntry == pb.stage = "patched" /\ Len(pb.entry) = 16384

\* C36: pb_write_varint, given the integer member of a message table
\* whatever its sign, ends having written between 1 and 10 bytes, all of
\* them inside the buffer.
C36_VarintBytes ==
    pb.stage = "varint" =>
        /\ ~pb.overrun
        /\ pb.d.m_pos - pb.from \in 1..10
        /\ pb.d.m_pos <= pb.d.m_size

\* The last call was an add or a set that raised an argument error.
ArgumentError ==
    cbop'.n = cbop.n + 1 /\ cbop'.op \in {"add_error", "set_error"}

\* C33: an add or set call that raises an argument error leaves the buffer
\* as it was: no row is zeroed and the current time and the current row
\* keep their values, whatever the timestamp of the call.
C33_ArgumentErrorKeepsBuffer ==
    [][ArgumentError =>
          /\ cb'.m_values = cb.m_values
          /\ cb'.m_current_time = cb.m_current_time
          /\ cb'.m_current_row = cb.m_current_row]_vars

\* C34: when process_message or timer_event has returned and the sandbox is
\* still Running, whether the call succeeded or ended in an error whose
\* message ends in "aborted", the interpreter's stack holds no value left
\* over from the call.
C34_StackEmptyBetweenCalls ==
    (/\ pc = "host" /\ call.op \in {"process_message", "timer_event"}
     /\ m_status = "Running") => lua_top = 0

\* C35: destroy with a state path never reads the globals of an interpreter
\* that is absent (the sandbox is Terminated or was never initialized): it
\* returns, having skipped persistence or with an error string.
C35_DestroyWithoutInterpreter ==
    (~alive /\ call.op = "destroy") =>
        /\ persisted # "undefined"
        /\ ~call.raised \/ persisted = "partial"

\* C37: a request for a block whose true resulting usage, current + nsize -
\* osize, is above the memory limit is refused, whatever the size asked
\* for, 2^32 and more included.
C37_QuotaCheckExact ==
    (mm.made /\ mm.nsize # 0 /\ mm.cur0 + mm.nsize - mm.osize > mm.lim) =>
        ~mm.ok

\* C38: whenever init has returned, with or without a state path and
\* whether the restore succeeded or failed, the memory limit and the
\* instruction limit are the ones the sandbox was created with.
C38_LimitsKept ==
    (pc = "host" /\ call.op = "init") =>
        /\ mem.lim = creation.req.mem
        /\ ins.lim = creation.req.inst

\* C39: in a sandbox of plugin type input or output no script code appends
\* to the output buffer: neither the script's top-level code during init
\* nor a function called later reaches the output function.
C39_NoOutputForInputOutput ==
    [][plugin_type' \in {"input", "output"} =>
          m_output'.m_pos <= m_output.m_pos]_vars

\* The row a current time maps to: (T / S) mod R, the 2^32-row spans of T
\* counted in.
RowOfTime(c) ==
    (CDiv(c.m_current_time.sec, c.m_seconds_per_row)
       + c.m_current_time.wraps * Pow32Mod(c.m_rows)) % c.m_rows

\* C40: a buffer a script has made and called add, set, get, compute,
\* set_header, format and fromstring on has its current row within
\* 0..R-1, its current time a multiple of S, and its current row equal to
\* (T / S) mod R.
C40_RingInvariant ==
    cb # NoBuffer =>
        /\ cb.m_current_row \in 0..(cb.m_rows - 1)
        /\ cb.m_current_time.sec % cb.m_seconds_per_row = 0
        /\ cb.m_current_row = RowOfTime(cb)

====
